---- MODULE Spec2Model ----
(***************************************************************************)
(* A model of the NocoBase client (src/nocobase_client.py):                *)
(*   - the type coercer (_is_empty_cell, _to_python_scalar,                *)
(*     _convert_by_field_type), as operators, exercised by SpecCoerce;     *)
(*   - the resilient request client (NocoBaseClient.request and            *)
(*     _request_once), one action per HTTP attempt, in SpecRequest;        *)
(*   - the import run (import_excel_to_collection with its inner           *)
(*     resolve_belongs_to_fk and build_excel_field_mapping), one action    *)
(*     per mapped column and one per finished row, in Spec.                *)
(*                                                                         *)
(* Python values are records [kind, s, n, f]:                              *)
(*   none      None                                                        *)
(*   nan       a missing value other than None (float NaN, NaT, pd.NA)     *)
(*   str       a string, s its characters                                  *)
(*   int       the integer n                                               *)
(*   float     the float n + f/10 (n >= 0, f one decimal digit)            *)
(*   npint     a numpy integer scalar, n its value (it has .item())        *)
(*   datetime  a datetime/Timestamp, n identifies it                       *)
(*   date      a datetime.date, n identifies it                            *)
(*   iso       the "YYYY-MM-DD HH:MM:SS" text of datetime n                *)
(* Strings whose characters matter are sequences of one-character strings; *)
(* identifiers that are only compared (field, column and table names) are  *)
(* TLA+ strings, "" standing for an absent or empty one.                   *)
(***************************************************************************)
EXTENDS Integers, Sequences, FiniteSets, TLC

VARIABLES
    pandas,     \* whether "import pandas" succeeds in this interpreter
    cpc,        \* SpecCoerce: "ready" before the conversion, "done" after
    cValue,     \* SpecCoerce: the raw cell value
    cField,     \* SpecCoerce: the field definition (its type), or NoField
    cResult,    \* SpecCoerce: what _convert_by_field_type returned
    base_urls,      \* NocoBaseClient.base_urls: the endpoint candidates, in order
    rpc,            \* request: "idle", "loop", "returned" or "raised"
    ridx,           \* request: index in base_urls of the next candidate
    last_exc,       \* request: local last_exc
    first_http_exc, \* request: local first_http_exc
    attempts,       \* request: the HTTP attempts made, in order: [cand, outcome]
    rResult,        \* request: the body returned or the exception raised
    pc,             \* import: "init", "rows", "done" (returned) or "raised"
    excel_exists,   \* import: os.path.exists(excel_path)
    nrows,          \* import: len(df) after the empty rows were dropped
    limit,          \* import: argument limit
    dry_run,        \* import: argument dry_run
    explicit_mapping,           \* import: argument explicit_mapping
    resolve_belongs_to,         \* import: argument resolve_belongs_to
    create_missing_belongs_to,  \* import: argument create_missing_belongs_to
    fields,         \* import: local fields, in the schema's order
    mapping,        \* import: local mapping, pairs <<column, field>> in dict order
    reasons,        \* import: local reasons, pairs <<column, reason>>
    unmapped,       \* import: local unmapped
    total,          \* import: local total
    i,              \* import: the row loop's index (0-based)
    k,              \* import: position in mapping.items() of the next column (1-based)
    values,         \* import: local values of the row in progress
    success,        \* import: local success
    failed,         \* import: local failed
    preview,        \* import: local preview
    errors,         \* import: local errors
    skipped,        \* import: how many rows line 790 has skipped in this run
    belongs_to_cache,   \* import: local belongs_to_cache, pairs <<key, pk>>
    calls,          \* import: the client calls made so far, in order
    lastRow,        \* import: how the row finished last ended, and its create response
    lastResolve,    \* import: what resolve_belongs_to_fk was given and did in this row
    raisedExc,      \* import: the exception that left import_excel_to_collection
    gpc,            \* collections_get: "idle", "loop", "returned" or "raised"
    gName,          \* collections_get: argument name
    gidx,           \* collections_get: index in attempts of the next lookup (1-based)
    getLog,         \* collections_get: the lookups made, in order: [params, answer]
    get_last_exc,   \* collections_get: local last_exc
    getResult,      \* collections_get: the response returned or the exception raised
    ctor,           \* the arguments the caller constructs the client with
    client,         \* "none" before NocoBaseClient(...), then "built" or the error raised
    kpc,            \* create: "idle", "loop", "returned" or "raised"
    kValues,        \* create: argument values
    kidx,           \* create: index in payloads of the next payload (1-based)
    createLog,      \* create: the requests made, in order: [payload, answer]
    create_last_exc,    \* create: local last_exc
    createResult,   \* create: the response returned or the exception raised
    mpc,            \* mapper: "ready" before build_excel_field_mapping, "done" after
    mColumns,       \* mapper: argument excel_columns (df.columns)
    mFields,        \* mapper: argument collection_fields
    mExplicit,      \* mapper: argument explicit_mapping
    mExcluded,      \* mapper: argument exclude_field_types
    mResult,        \* mapper: [mapping, reasons, unmapped] of lines 706-712
    upc,            \* endpoints: "ready" before build_fallback_base_urls, "done" after
    uBaseUrl,       \* endpoints: argument base_url
    candidates,     \* endpoints: the list build_fallback_base_urls returned
    wpc,            \* create/update: "idle", "loop", "returned" or "raised"
    wOp,            \* create/update: which of the two is called
    wUrls,          \* create/update: self.base_urls
    wShape,         \* create/update: index in payloads of the payload in progress
    wCand,          \* request: index in base_urls of the next candidate
    wFirstHttp,     \* request: local first_http_exc
    wReqLast,       \* request: local last_exc
    wLastExc,       \* create/update: local last_exc
    wLog,           \* create/update: the HTTP attempts made: [op, payload, cand, outcome]
    wResult         \* create/update: the body returned or the exception raised

coerceVars == <<cpc, cValue, cField, cResult>>

requestVars == <<base_urls, rpc, ridx, last_exc, first_http_exc, attempts, rResult>>

optionVars ==
    <<excel_exists, nrows, limit, dry_run, explicit_mapping, resolve_belongs_to,
      create_missing_belongs_to>>

schemaVars == <<fields, mapping, reasons, unmapped, total>>

rowVars == <<i, k, values>>

resultVars == <<success, failed, preview, errors>>

importVars ==
    <<pc, optionVars, schemaVars, rowVars, resultVars, skipped, belongs_to_cache, calls,
      lastRow, lastResolve, raisedExc>>

getVars == <<gpc, gName, gidx, getLog, get_last_exc, getResult>>

createVars == <<ctor, client, kpc, kValues, kidx, createLog, create_last_exc, createResult>>

mapVars == <<mpc, mColumns, mFields, mExplicit, mExcluded, mResult>>

urlVars == <<upc, uBaseUrl, candidates>>

writeVars ==
    <<wpc, wOp, wUrls, wShape, wCand, wFirstHttp, wReqLast, wLastExc, wLog, wResult>>

helperVars == <<getVars, createVars, mapVars, urlVars, writeVars>>

vars == <<pandas, coerceVars, requestVars, importVars, helperVars>>

----------------------------------------------------------------------------
(* Python values *)

Val(kind, s, n, f) == [kind |-> kind, s |-> s, n |-> n, f |-> f]

None == Val("none", <<>>, 0, 0)

NaN == Val("nan", <<>>, 0, 0)

StrV(s) == Val("str", s, 0, 0)

IntV(n) == Val("int", <<>>, n, 0)

FloatV(n, f) == Val("float", <<>>, n, f)

NpIntV(n) == Val("npint", <<>>, n, 0)

DateTimeV(n) == Val("datetime", <<>>, n, 0)

DateV(n) == Val("date", <<>>, n, 0)

IsoV(n) == Val("iso", <<>>, n, 0)

----------------------------------------------------------------------------
(* Strings as character sequences: str.strip, str.isdigit, int(), float(), str() *)

Digits == <<"0", "1", "2", "3", "4", "5", "6", "7", "8", "9">>

IsDigitChar(c) == \E d \in 1..10 : Digits[d] = c

DigitVal(c) == (CHOOSE d \in 1..10 : Digits[d] = c) - 1

IsSpace(c) == c = " "

RECURSIVE LStrip(_)
LStrip(s) == IF s # <<>> /\ IsSpace(Head(s)) THEN LStrip(Tail(s)) ELSE s

RECURSIVE RStrip(_)
RStrip(s) ==
    IF s # <<>> /\ IsSpace(s[Len(s)]) THEN RStrip(SubSeq(s, 1, Len(s) - 1)) ELSE s

Strip(s) == RStrip(LStrip(s))

IsDigitStr(s) == s # <<>> /\ \A j \in 1..Len(s) : IsDigitChar(s[j])

RECURSIVE DigitsToInt(_)
DigitsToInt(s) ==
    IF s = <<>> THEN 0
    ELSE 10 * DigitsToInt(SubSeq(s, 1, Len(s) - 1)) + DigitVal(s[Len(s)])

RECURSIVE IntToChars(_)
IntToChars(n) ==
    IF n < 10 THEN <<Digits[n + 1]>>
    ELSE IntToChars(n \div 10) \o <<Digits[(n % 10) + 1]>>

\* float(<str>): surrounding whitespace is ignored; digits, optionally a point
\* and one more digit. The alphabet of the model has no sign, exponent or letter
\* that float() would accept. The result is [ok, n, f].
ParseFloat(s) ==
    LET t == Strip(s)
        dots == {j \in 1..Len(t) : t[j] = "."}
    IN  IF IsDigitStr(t) THEN [ok |-> TRUE, n |-> DigitsToInt(t), f |-> 0]
        ELSE IF Cardinality(dots) # 1 THEN [ok |-> FALSE, n |-> 0, f |-> 0]
        ELSE LET p == CHOOSE j \in dots : TRUE
                 a == SubSeq(t, 1, p - 1)
                 b == SubSeq(t, p + 1, Len(t))
             IN  IF /\ a \o b # <<>>
                    /\ \A j \in 1..Len(a) : IsDigitChar(a[j])
                    /\ Len(b) <= 1
                    /\ \A j \in 1..Len(b) : IsDigitChar(b[j])
                 THEN [ok |-> TRUE, n |-> DigitsToInt(a),
                       f |-> IF b = <<>> THEN 0 ELSE DigitVal(b[1])]
                 ELSE [ok |-> FALSE, n |-> 0, f |-> 0]

\* str(v)
PyStr(v) ==
    CASE v.kind = "str" -> v.s
      [] v.kind \in {"int", "npint"} -> IntToChars(v.n)
      [] v.kind = "float" -> IntToChars(v.n) \o <<".">> \o IntToChars(v.f)
      [] v.kind = "nan" -> <<"n", "a", "n">>
      [] v.kind = "none" -> <<"N", "o", "n", "e">>
      [] OTHER -> <<"D">> \o IntToChars(v.n)

----------------------------------------------------------------------------
(* The type coercer *)

\* A field definition of the schema. "" is an absent (or empty) entry; NoField is
\* the None that fields.get() gives for an unknown name.
Field(name, type, title, label, uiTitle, target, foreignKey) ==
    [name |-> name, type |-> type, title |-> title, label |-> label, uiTitle |-> uiTitle,
     target |-> target, foreignKey |-> foreignKey]

NoField == Field("", "", "", "", "", "", "")

\* pd.isna(value) of a scalar
PdIsNa(value) == value.kind \in {"none", "nan"}

IsEmptyCell(value, hasPandas) ==
    IF value.kind = "none" THEN TRUE
    ELSE IF hasPandas THEN PdIsNa(value)
    ELSE value.kind = "str" /\ Strip(value.s) = <<>>

ToPythonScalar(value, hasPandas) ==
    IF IsEmptyCell(value, hasPandas) THEN None
    ELSE IF value.kind = "npint" THEN IntV(value.n)
    ELSE value

DateTypes == {"date", "datetime", "datetimeNoTz"}

FloatTypes == {"double", "float", "decimal"}

IntegerTypes == {"integer", "bigInt", "sort", "snowflakeId"}

\* float(v): [ok, n, f]
PyFloat(v) ==
    CASE v.kind = "str" -> ParseFloat(v.s)
      [] v.kind = "int" -> [ok |-> TRUE, n |-> v.n, f |-> 0]
      [] v.kind = "float" -> [ok |-> TRUE, n |-> v.n, f |-> v.f]
      [] OTHER -> [ok |-> FALSE, n |-> 0, f |-> 0]

ConvertDate(v) ==
    IF v.kind = "datetime" THEN IsoV(v.n) ELSE StrV(PyStr(v))

ConvertFloat(v) ==
    IF v.kind = "nan" THEN v
    ELSE IF PyFloat(v).ok THEN FloatV(PyFloat(v).n, PyFloat(v).f)
    ELSE v

\* a coercer that leaves a whole-valued float as it is
ConvertIntegerKeepsWholeFloat(v) ==
    IF v.kind = "float" /\ v.f = 0 THEN v
    ELSE IF v.kind = "str" /\ IsDigitStr(Strip(v.s)) THEN IntV(DigitsToInt(Strip(v.s)))
    ELSE IF v.kind # "nan" /\ PyFloat(v).ok THEN IntV(PyFloat(v).n)
    ELSE v

\* lines 531-539
ConvertInteger(v) ==
    IF v.kind = "float" /\ v.f = 0 THEN IntV(v.n)
    ELSE IF v.kind = "str" /\ IsDigitStr(Strip(v.s)) THEN IntV(DigitsToInt(Strip(v.s)))
    ELSE IF v.kind # "nan" /\ PyFloat(v).ok THEN IntV(PyFloat(v).n)
    ELSE v

ConvertByFieldType(value, field_def, hasPandas) ==
    LET v == ToPythonScalar(value, hasPandas)
    IN  IF v = None \/ field_def = NoField THEN v
        ELSE IF field_def.type \in DateTypes THEN ConvertDate(v)
        ELSE IF field_def.type \in FloatTypes THEN ConvertFloat(v)
        ELSE IF field_def.type \in IntegerTypes THEN ConvertInteger(v)
        ELSE v

----------------------------------------------------------------------------
(* SpecCoerce: one call of _convert_by_field_type on a bounded input *)

CellValues ==
    { None, NaN,
      StrV(<<>>), StrV(<<" ">>), StrV(<<" ", " ">>),
      StrV(<<"a">>), StrV(<<"7">>), StrV(<<" ", "7">>), StrV(<<"7", ".", "5">>),
      IntV(7), FloatV(7, 0), FloatV(7, 5), NpIntV(3), DateTimeV(1), DateV(1) }

FieldTypes ==
    {"string", "date", "datetime", "datetimeNoTz", "double", "float", "decimal",
     "integer", "bigInt", "sort", "snowflakeId", "belongsTo"}

FieldOfType(t) == Field("f", t, "", "", "", "", "")

----------------------------------------------------------------------------
(* The resilient request client: NocoBaseClient._request_once and request *)

\* build_fallback_base_urls calls add() four times at most
MaxCandidates == 4

\* a resolver whose add() does not look for the URL in the list
BaseUrlsNoDedup(n) == [j \in 1..n |-> IF j = n /\ n > 1 THEN 1 ELSE j]

\* build_fallback_base_urls: n distinct URLs (add() keeps the first occurrence of
\* each), named 1..n in the order of the list
BaseUrls(n) == [j \in 1..n |-> j]

\* Exceptions: an HTTPError carries the response (its status) of candidate cand;
\* "transport" is what requests.request raised, "json" what resp.json() raised.
Exc(kind, cand, status) == [kind |-> kind, cand |-> cand, status |-> status]

NoExc == Exc("none", 0, 0)

RuntimeErrorExc == Exc("runtime", 0, 0)

Body(cand, status) == [kind |-> "body", cand |-> cand, status |-> status]

Statuses == {200, 201, 304, 400, 404, 405, 500, 502}

\* a client that takes 200 alone for a success
RespOkOnly200(status) == status = 200

\* requests.Response.ok: raise_for_status() raises for 400..599 only
RespOk(status) == ~(400 <= status /\ status < 600)

\* What the network does with one attempt: no response at all (net = FALSE), or
\* a response with a status and a body that parses as JSON or does not (the body
\* of an error response is not parsed: one kind of body stands for all).
Outcomes ==
    {[net |-> FALSE, status |-> 0, json |-> FALSE]}
    \cup {[net |-> TRUE, status |-> st, json |-> FALSE] : st \in Statuses}
    \cup {[net |-> TRUE, status |-> st, json |-> TRUE] : st \in {x \in Statuses : x < 400}}

\* a client that hands back the response without parsing its body
RequestOnceUnparsed(cand, o) ==
    IF ~o.net THEN [ok |-> FALSE, body |-> Body(0, 0), exc |-> Exc("transport", cand, 0)]
    ELSE IF RespOk(o.status) THEN [ok |-> TRUE, body |-> Body(cand, o.status), exc |-> NoExc]
    ELSE [ok |-> FALSE, body |-> Body(0, 0), exc |-> Exc("http", cand, o.status)]

\* _request_once: [ok, body] when it returns, [~ok, exc] when it raises
RequestOnce(cand, o) ==
    IF ~o.net THEN [ok |-> FALSE, body |-> Body(0, 0), exc |-> Exc("transport", cand, 0)]
    ELSE IF RespOk(o.status) THEN
        IF o.json THEN [ok |-> TRUE, body |-> Body(cand, o.status), exc |-> NoExc]
        ELSE [ok |-> FALSE, body |-> Body(0, 0), exc |-> Exc("json", cand, o.status)]
    ELSE [ok |-> FALSE, body |-> Body(0, 0), exc |-> Exc("http", cand, o.status)]

\* a client that gives up at once on an authentication failure only
RaisesAtOnceAuthOnly(status) == status \in {401, 403}

\* the test of line 221: a 4xx other than 404 and 405 is raised at once
RaisesAtOnce(status) == status < 500 /\ status \notin {404, 405}

\* a client that prefers the last error: "last_exc or first_http_exc or ..."
FinalExcLastFirst(first, last) ==
    IF last # NoExc THEN last ELSE IF first # NoExc THEN first ELSE RuntimeErrorExc

\* "first_http_exc or last_exc or RuntimeError(...)"
FinalExc(first, last) ==
    IF first # NoExc THEN first ELSE IF last # NoExc THEN last ELSE RuntimeErrorExc

RequestStart ==
    /\ rpc = "idle"
    /\ rpc' = "loop"
    /\ ridx' = 1
    /\ last_exc' = NoExc
    /\ first_http_exc' = NoExc
    /\ UNCHANGED <<base_urls, attempts, rResult>>
    /\ UNCHANGED <<pandas, coerceVars, importVars, helperVars>>

TryCandidate ==
    /\ rpc = "loop"
    /\ ridx <= Len(base_urls)
    /\ \E o \in Outcomes :
        LET r == RequestOnce(base_urls[ridx], o)
            firstNow == IF first_http_exc = NoExc THEN r.exc ELSE first_http_exc
        IN  /\ attempts' = Append(attempts, [cand |-> base_urls[ridx], outcome |-> o])
            /\ IF r.ok THEN
                    /\ rpc' = "returned"
                    /\ rResult' = r.body
                    /\ UNCHANGED <<ridx, last_exc, first_http_exc>>
               ELSE IF r.exc.kind = "http" THEN
                    /\ first_http_exc' = firstNow
                    /\ IF RaisesAtOnce(r.exc.status) THEN
                            /\ rpc' = "raised"
                            /\ rResult' = r.exc
                            /\ UNCHANGED <<ridx, last_exc>>
                       ELSE /\ last_exc' = r.exc
                            /\ ridx' = ridx + 1
                            /\ UNCHANGED <<rpc, rResult>>
               ELSE /\ last_exc' = r.exc
                    /\ ridx' = ridx + 1
                    /\ UNCHANGED <<rpc, rResult, first_http_exc>>
    /\ UNCHANGED base_urls
    /\ UNCHANGED <<pandas, coerceVars, importVars, helperVars>>

Exhausted ==
    /\ rpc = "loop"
    /\ ridx > Len(base_urls)
    /\ rpc' = "raised"
    /\ rResult' = FinalExc(first_http_exc, last_exc)
    /\ UNCHANGED <<base_urls, ridx, last_exc, first_http_exc, attempts>>
    /\ UNCHANGED <<pandas, coerceVars, importVars, helperVars>>

RequestNext == RequestStart \/ TryCandidate \/ Exhausted

----------------------------------------------------------------------------
(* Python dicts keep insertion order: a dict is a sequence of <<key, value>> *)

DictKeys(d) == {d[j][1] : j \in 1..Len(d)}

DictHas(d, key) == key \in DictKeys(d)

DictGet(d, key) == d[CHOOSE j \in 1..Len(d) : d[j][1] = key][2]

DictPut(d, key, v) ==
    IF DictHas(d, key)
    THEN [j \in 1..Len(d) |-> IF d[j][1] = key THEN <<key, v>> ELSE d[j]]
    ELSE Append(d, <<key, v>>)

----------------------------------------------------------------------------
(* The field mapper: _extract_fields_from_collection_get, _field_titles,   *)
(* build_excel_field_mapping                                               *)

\* The names of the model that carry surrounding blanks, with what str.strip
\* makes of them; every other name of the model has none.
PaddedNames == {<<" Owner ", "Owner">>, <<"  ", "">>}

StripName(t) ==
    IF \E p \in PaddedNames : p[1] = t
    THEN (CHOOSE p \in PaddedNames : p[1] = t)[2]
    ELSE t

RECURSIVE ExtractFields(_)
ExtractFields(list) ==
    IF list = <<>> THEN <<>>
    ELSE LET f == list[Len(list)]
             out == ExtractFields(SubSeq(list, 1, Len(list) - 1))
         IN  IF f.name # "" THEN DictPut(out, f.name, f) ELSE out

FieldsHas(collection_fields, name) == DictHas(collection_fields, name)

FieldsGet(collection_fields, name) ==
    IF DictHas(collection_fields, name) THEN DictGet(collection_fields, name) ELSE NoField

RECURSIVE Uniq(_)
Uniq(ts) ==
    IF ts = <<>> THEN <<>>
    ELSE LET init == Uniq(SubSeq(ts, 1, Len(ts) - 1))
             t == ts[Len(ts)]
         IN  IF \E j \in 1..Len(init) : init[j] = t THEN init ELSE Append(init, t)

\* a mapper that knows a field by its title entry alone
FieldTitlesTitleOnly(field_def) ==
    IF StripName(field_def.title) # "" THEN <<StripName(field_def.title)>> ELSE <<>>

FieldTitles(field_def) ==
    LET keep(t) == IF StripName(t) # "" THEN <<StripName(t)>> ELSE <<>>
    IN  Uniq(keep(field_def.title) \o keep(field_def.label) \o keep(field_def.uiTitle))

RelationTypes == {"belongsTo", "belongsToMany", "hasMany", "hasOne"}

\* a mapper that excludes no field type
AllowedFieldAlways(collection_fields, excluded, field_name) == TRUE

AllowedField(collection_fields, excluded, field_name) ==
    IF excluded = {} THEN TRUE
    ELSE FieldsGet(collection_fields, field_name).type \notin excluded

\* the mapping and the reasons grow together
PutMapping(m, col, field_name, reason) ==
    [mapping |-> DictPut(m.mapping, col, field_name),
     reasons |-> DictPut(m.reasons, col, reason)]

\* a mapper that ignores the operator's overrides
ExplicitAcceptsNever(collection_fields, field_name) == FALSE

\* a mapper that takes the operator's word for the field
ExplicitAcceptsAny(collection_fields, field_name) == TRUE

ExplicitAccepts(collection_fields, field_name) == FieldsHas(collection_fields, field_name)

\* 1) the explicit mapping, in its own order
RECURSIVE MapExplicit(_, _)
MapExplicit(explicit, collection_fields) ==
    IF explicit = <<>> THEN [mapping |-> <<>>, reasons |-> <<>>]
    ELSE LET m == MapExplicit(SubSeq(explicit, 1, Len(explicit) - 1), collection_fields)
             e == explicit[Len(explicit)]
         IN  IF DictHas(m.mapping, e[1]) THEN m
             ELSE IF ExplicitAccepts(collection_fields, e[2])
                  THEN PutMapping(m, e[1], e[2], "explicit")
                  ELSE m

\* 2) a column named like a field
RECURSIVE MapByName(_, _, _, _)
MapByName(m0, cols, collection_fields, excluded) ==
    IF cols = <<>> THEN m0
    ELSE LET m == MapByName(m0, SubSeq(cols, 1, Len(cols) - 1), collection_fields, excluded)
             col == cols[Len(cols)]
         IN  IF DictHas(m.mapping, col) THEN m
             ELSE IF FieldsHas(collection_fields, col)
                     /\ AllowedField(collection_fields, excluded, col)
                  THEN PutMapping(m, col, col, "match_field_name")
                  ELSE m

RECURSIVE AddTitles(_, _, _)
AddTitles(t2n, titles, name) ==
    IF titles = <<>> THEN t2n
    ELSE LET d == AddTitles(t2n, SubSeq(titles, 1, Len(titles) - 1), name)
             t == titles[Len(titles)]
         IN  IF DictHas(d, t) THEN d ELSE DictPut(d, t, name)

RECURSIVE TitleToName(_, _, _)
TitleToName(collection_fields, n, excluded) ==
    IF n = 0 THEN <<>>
    ELSE LET d == TitleToName(collection_fields, n - 1, excluded)
             name == collection_fields[n][1]
         IN  IF ~AllowedField(collection_fields, excluded, name) THEN d
             ELSE AddTitles(d, FieldTitles(collection_fields[n][2]), name)

\* 3) a column named like a field's title
RECURSIVE MapByTitle(_, _, _)
MapByTitle(m0, cols, title_to_name) ==
    IF cols = <<>> THEN m0
    ELSE LET m == MapByTitle(m0, SubSeq(cols, 1, Len(cols) - 1), title_to_name)
             col == cols[Len(cols)]
         IN  IF DictHas(m.mapping, col) THEN m
             ELSE IF DictHas(title_to_name, col) /\ DictGet(title_to_name, col) # ""
                  THEN PutMapping(m, col, DictGet(title_to_name, col), "match_field_title")
                  ELSE m

\* a mapper that matches titles before identifiers
BuildExcelFieldMappingTitlesFirst(excel_columns, collection_fields, explicit, excluded) ==
    MapByName(
        MapByTitle(MapExplicit(explicit, collection_fields), excel_columns,
                   TitleToName(collection_fields, Len(collection_fields), excluded)),
        excel_columns, collection_fields, excluded)

BuildExcelFieldMapping(excel_columns, collection_fields, explicit, excluded) ==
    MapByTitle(
        MapByName(MapExplicit(explicit, collection_fields), excel_columns,
                  collection_fields, excluded),
        excel_columns,
        TitleToName(collection_fields, Len(collection_fields), excluded))

----------------------------------------------------------------------------
(* The import run: import_excel_to_collection                              *)

MaxRows == 2

Collection == "orders"

\* df.columns
Columns == <<"name", "Owner", "note">>

FName == Field("name", "string", "Name", "", "", "", "")

FOwner(target, foreignKey) ==
    Field("owner", "belongsTo", " Owner ", "", "Owner", target, foreignKey)

FNote == Field("note", "hasMany", "Note", "", "", "notes", "")

\* data.fields of the import table, as collections:get may return it
Schemas ==
    { <<FName, FOwner("users", "ownerId")>>,
      <<FName, FNote>>,
      <<FName, FOwner("", "ownerId")>>,
      <<FName, FOwner("users", "")>>,
      <<FOwner(Collection, "ownerId")>>,
      <<>> }

\* the overrides a caller may pass: none, or some that name a field the table
\* may not have, and two that put the columns "name" and "Owner" on one field
ExplicitMappings ==
    { <<>>, << <<"note", "ghost">>, <<"name", "name">>, <<"Owner", "name">> >> }

\* the cells a row may hold in a column of the sheet
RowCells == {NaN, StrV(<<"u">>)}

\* the cells of the column of relation labels: a blank label too
LabelCells == {NaN, StrV(<<" ", "u">>), StrV(<<" ">>)}

\* row.get(excel_col)
CellChoices(excel_col) ==
    IF excel_col = "Owner" THEN LabelCells
    ELSE IF \E j \in 1..Len(Columns) : Columns[j] = excel_col THEN RowCells
    ELSE {None}

\* Exceptions of the import run. kind: "no_pandas", "no_file", "empty_excel",
\* "http" (an HTTPError, with its response's status), "transport", "app_errors"
\* (RuntimeError(resp["errors"])), "bad_create" (RuntimeError("create ...")),
\* "no_target", "no_fk", "not_found" (with the label), and "resolve_failed":
\* the RuntimeError of line 782, cause naming the exception it wraps.
Err(kind, cause, status, label, field, col) ==
    [kind |-> kind, cause |-> cause, status |-> status, label |-> label,
     field |-> field, col |-> col]

NoErr == Err("none", "", 0, <<>>, "", "")

SimpleErr(kind) == Err(kind, "", 0, <<>>, "", "")

HttpErr(status) == Err("http", "", status, <<>>, "", "")

\* what a call of the client may raise: request's HTTPError or another exception
ClientExcs == {HttpErr(400), SimpleErr("transport")}

\* data.titleField of the target table ("": it declares none)
TitleFields == {"", "title"}

\* client.collections_get(name=target): raises, or returns the definition
GetOutcomes ==
    {[ok |-> FALSE, exc |-> e, titleField |-> ""] : e \in ClientExcs}
    \cup {[ok |-> TRUE, exc |-> NoErr, titleField |-> t] : t \in TitleFields}

\* a record of the target table: its text under the field tf, and its id
TRow(tf, text, id) == [tf |-> tf, text |-> text, id |-> id]

\* the pages client.list may answer: rows that carry the default title field
\* "name", or a row that carries the field "title" (and no "name", and no id)
Pages ==
    { <<TRow("name", StrV(<<"U">>), IntV(2)), TRow("name", StrV(<<"u", " ">>), IntV(1)),
        TRow("name", StrV(<<"u">>), IntV(3))>>,
      <<TRow("title", StrV(<<"u">>), None)>> }

\* client.list(target, ...): raises, or returns a page
ListOutcomes ==
    {[ok |-> FALSE, exc |-> e, page |-> <<>>] : e \in ClientExcs}
    \cup {[ok |-> TRUE, exc |-> NoErr, page |-> p] : p \in Pages}

\* client.create(target, {title_field: label}): raises, or returns the record
TargetCreateOutcomes ==
    {[ok |-> FALSE, exc |-> e, id |-> None] : e \in ClientExcs}
    \cup {[ok |-> TRUE, exc |-> NoErr, id |-> x] : x \in {IntV(5), None}}

\* client.create(collection, values): raises, or returns a 2xx body whose
\* "errors" is truthy or not and whose "data" is no dict, a dict without id,
\* or a dict with an id
CreateOutcomes ==
    {[ok |-> FALSE, exc |-> e, errors |-> FALSE, data |-> "none"] : e \in ClientExcs}
    \cup {[ok |-> TRUE, exc |-> NoErr, errors |-> FALSE, data |-> d] :
            d \in {"none", "noid", "id"}}
    \cup {[ok |-> TRUE, exc |-> NoErr, errors |-> TRUE, data |-> "id"]}

NoCreate == [ok |-> FALSE, exc |-> NoErr, errors |-> FALSE, data |-> "none"]

\* a call of the client made by the import: the helper, the table, the row it
\* is made for (0: before the rows) and the values it sends
CallWith(op, table, row, payload) ==
    [op |-> op, table |-> table, row |-> row, payload |-> payload]

\* a client whose lookups all go to the imported collection
CallOnCollection(op, table, row) == CallWith(op, Collection, row, <<>>)

Call(op, table, row) == CallWith(op, table, row, <<>>)

\* an importer that creates the missing target record without its title
TargetCreatePayloadEmpty(title_field, label) == <<>>

\* line 754: {title_field: label}
TargetCreatePayload(title_field, label) == << <<title_field, StrV(label)>> >>

\* a resolver that does without the target's schema when the label is cached
TargetDefRaisesUnlessCached(g, cache, target, label) ==
    /\ ~g.ok
    /\ ~\E j \in 1..Len(cache) : cache[j][1][1] = target /\ cache[j][1][3] = label

\* line 735: client.collections_get(name=target) raises, whatever the cache holds
TargetDefRaises(g, cache, target, label) == ~g.ok

\* a resolver that keeps no null key in its cache
CachePutUnlessNull(cache, cache_key, pk) ==
    IF pk = None THEN cache ELSE DictPut(cache, cache_key, pk)

\* lines 750 and 756: belongs_to_cache[cache_key] = pk
CachePut(cache, cache_key, pk) == DictPut(cache, cache_key, pk)

\* a resolver that never looks into its cache
CacheHitNever(cache, cache_key) == FALSE

\* a resolver that takes a cached null key for a miss
CacheHitNonNull(cache, cache_key) ==
    DictHas(cache, cache_key) /\ DictGet(cache, cache_key) # None

\* line 741: cache_key in belongs_to_cache
CacheHit(cache, cache_key) == DictHas(cache, cache_key)

\* str(r.get(title_field, "")).strip()
RowTitle(r, title_field) == IF r.tf = title_field THEN Strip(PyStr(r.text)) ELSE <<>>

Matches(page, title_field, label) ==
    {j \in 1..Len(page) : RowTitle(page[j], title_field) = label}

\* a resolver that takes the last matching row of the page
FirstMatchLast(page, title_field, label) ==
    CHOOSE j \in Matches(page, title_field, label) :
        \A h \in Matches(page, title_field, label) : j >= h

FirstMatch(page, title_field, label) ==
    CHOOSE j \in Matches(page, title_field, label) :
        \A h \in Matches(page, title_field, label) : j <= h

\* resolve_belongs_to_fk, given what its three client calls answer (g, l, c) if
\* they are made: [raised, exc, pk, cache, calls]
ResolveBelongsToFk(field_def, display_value, cache, createMissing, row, g, l, c) ==
    LET target == field_def.target
        label == Strip(PyStr(display_value))
        title_field == IF g.titleField = "" THEN "name" ELSE g.titleField
        cache_key == <<target, title_field, label>>
        cGet == <<Call("collections_get", target, row)>>
        cList == cGet \o <<Call("list", target, row)>>
        cCreate == cList \o <<CallWith("create", target, row,
                                        TargetCreatePayload(title_field, label))>>
        Raise(e, cs) ==
            [raised |-> TRUE, exc |-> e, pk |-> None, cache |-> cache, calls |-> cs]
        Return(pk, ch, cs) ==
            [raised |-> FALSE, exc |-> NoErr, pk |-> pk, cache |-> ch, calls |-> cs]
    IN  IF target = "" THEN Raise(SimpleErr("no_target"), <<>>)
        ELSE IF field_def.foreignKey = "" THEN Raise(SimpleErr("no_fk"), <<>>)
        ELSE IF label = <<>> THEN Return(None, cache, <<>>)
        ELSE IF TargetDefRaises(g, cache, target, label) THEN Raise(g.exc, cGet)
        ELSE IF CacheHit(cache, cache_key) THEN Return(DictGet(cache, cache_key), cache, cGet)
        ELSE IF ~l.ok THEN Raise(l.exc, cList)
        ELSE IF Matches(l.page, title_field, label) # {} THEN
            LET pk == l.page[FirstMatch(l.page, title_field, label)].id
            IN  Return(pk, CachePut(cache, cache_key, pk), cList)
        ELSE IF createMissing THEN
            IF ~c.ok THEN Raise(c.exc, cCreate)
            ELSE Return(c.id, CachePut(cache, cache_key, c.id), cCreate)
        ELSE Raise(Err("not_found", "", 0, label, title_field, target), cList)

Min(a, b) == IF a <= b THEN a ELSE b

ColumnsNotIn(cols, m) == SelectSeq(cols, LAMBDA col : ~DictHas(m, col))

\* how a finished row ended: "skipped", "preview", "success" or "failed", with
\* the answer of its create call when one was made
RowEnd(row, outcome, resp) == [row |-> row, outcome |-> outcome, resp |-> resp]

\* an importer that numbers a failed row from the end of the sheet
ErrorEntryFromEnd(row, exc, vals) ==
    [row |-> total + 1 - row, error |-> exc, values |-> vals,
     has_response |-> exc.kind = "http",
     status_code |-> IF exc.kind = "http" THEN exc.status ELSE 0]

\* line 807: {"row": i + 1, "error": str(exc), "values": values} and lines 808-814
ErrorEntry(row, exc, vals) ==
    [row |-> row, error |-> exc, values |-> vals,
     has_response |-> exc.kind = "http",
     status_code |-> IF exc.kind = "http" THEN exc.status ELSE 0]

\* lines 684-698: the run ends with an exception before the schema is known
StartFails ==
    /\ pc = "init"
    /\ \/ /\ ~pandas
          /\ raisedExc' = SimpleErr("no_pandas")
          /\ calls' = calls
       \/ /\ pandas /\ ~excel_exists
          /\ raisedExc' = SimpleErr("no_file")
          /\ calls' = calls
       \/ /\ pandas /\ excel_exists /\ nrows = 0
          /\ raisedExc' = SimpleErr("empty_excel")
          /\ calls' = calls
       \/ /\ pandas /\ excel_exists /\ nrows > 0
          /\ \E e \in ClientExcs : raisedExc' = e
          /\ calls' = Append(calls, Call("collections_get", Collection, 0))
    /\ pc' = "raised"
    /\ UNCHANGED <<optionVars, schemaVars, rowVars, resultVars, skipped, belongs_to_cache, lastRow,
                   lastResolve>>
    /\ UNCHANGED <<pandas, coerceVars, requestVars, helperVars>>

\* an importer that takes every row whatever the limit
TotalIgnoringLimit(rows, lim) == rows

\* line 714: len(df) if limit <= 0 else min(len(df), limit)
Total(rows, lim) == IF lim <= 0 THEN rows ELSE Min(rows, lim)

\* lines 698-720: the schema is fetched and the mapping built
StartOk ==
    /\ pc = "init"
    /\ pandas /\ excel_exists /\ nrows > 0
    /\ \E schema \in Schemas :
        LET fs == ExtractFields(schema)
            m == BuildExcelFieldMapping(Columns, fs, explicit_mapping,
                    IF resolve_belongs_to THEN {} ELSE RelationTypes)
        IN  /\ fields' = fs
            /\ mapping' = m.mapping
            /\ reasons' = m.reasons
            /\ unmapped' = ColumnsNotIn(Columns, m.mapping)
    /\ total' = Total(nrows, limit)
    /\ calls' = Append(calls, Call("collections_get", Collection, 0))
    /\ pc' = "rows"
    /\ i' = 0
    /\ k' = 1
    /\ values' = <<>>
    /\ success' = 0
    /\ failed' = 0
    /\ preview' = <<>>
    /\ errors' = <<>>
    /\ skipped' = 0
    /\ belongs_to_cache' = <<>>
    /\ UNCHANGED <<optionVars, lastRow, lastResolve, raisedExc>>
    /\ UNCHANGED <<pandas, coerceVars, requestVars, helperVars>>

InRow == pc = "rows" /\ i < total

IsRelationColumn(field_def) ==
    resolve_belongs_to /\ field_def # NoField /\ field_def.type = "belongsTo"

\* lines 764-766, 784-787: one mapped column of the row, coerced
MapColumn ==
    /\ InRow
    /\ k <= Len(mapping)
    /\ LET excel_col == mapping[k][1]
           field_name == mapping[k][2]
           field_def == FieldsGet(fields, field_name)
       IN  /\ ~IsRelationColumn(field_def)
           /\ \E raw \in CellChoices(excel_col) :
                LET v == ConvertByFieldType(raw, field_def, pandas)
                IN  values' = IF v = None THEN values ELSE DictPut(values, field_name, v)
    /\ k' = k + 1
    /\ UNCHANGED <<pc, i, optionVars, schemaVars, resultVars, skipped, belongs_to_cache, calls,
                   lastRow, lastResolve, raisedExc>>
    /\ UNCHANGED <<pandas, coerceVars, requestVars, helperVars>>

\* an importer that writes the resolved key whatever it is
RelationValueKeepsNull(r, field_def, field_name, excel_col, vals) ==
    IF r.raised THEN
        [raised |-> TRUE,
         exc |-> Err("resolve_failed", r.exc.kind, r.exc.status, r.exc.label,
                     field_name, excel_col),
         values |-> vals]
    ELSE [raised |-> FALSE, exc |-> NoErr,
          values |-> DictPut(vals, field_def.foreignKey, r.pk)]

\* what lines 770-782 do with the resolver's outcome r: [raised, exc, values]
RelationValue(r, field_def, field_name, excel_col, vals) ==
    IF r.raised THEN
        [raised |-> TRUE,
         exc |-> Err("resolve_failed", r.exc.kind, r.exc.status, r.exc.label,
                     field_name, excel_col),
         values |-> vals]
    ELSE IF r.pk = None \/ field_def.foreignKey = "" THEN
        [raised |-> FALSE, exc |-> NoErr, values |-> vals]
    ELSE [raised |-> FALSE, exc |-> NoErr,
          values |-> DictPut(vals, field_def.foreignKey, r.pk)]

\* The answer of a call that is not made is of no account: one stands for all.
NoGet == CHOOSE g \in GetOutcomes : g.ok

NoList == CHOOSE l \in ListOutcomes : l.ok

NoTargetCreate == CHOOSE c \in TargetCreateOutcomes : c.ok

Made(cs, op) == \E j \in 1..Len(cs) : cs[j].op = op

\* what the resolver was given (the cell, and the answers of the calls it made)
\* and what it did
Resolved(row, value, g, l, c, r) ==
    [row |-> row, value |-> value, get |-> g, list |-> l, create |-> c,
     raised |-> r.raised, exc |-> r.exc, pk |-> r.pk, calls |-> r.calls]

NoResolve ==
    [row |-> 0, value |-> None, get |-> NoGet, list |-> NoList, create |-> NoTargetCreate,
     raised |-> FALSE, exc |-> NoErr, pk |-> None, calls |-> <<>>]

\* lines 764-782: one mapped belongsTo column of the row, resolved
ResolveColumn ==
    /\ InRow
    /\ k <= Len(mapping)
    /\ LET excel_col == mapping[k][1]
           field_name == mapping[k][2]
           field_def == FieldsGet(fields, field_name)
       IN  /\ IsRelationColumn(field_def)
           /\ \E raw \in CellChoices(excel_col) :
                LET v0 == ToPythonScalar(raw, pandas)
                IN  IF v0 = None THEN
                        /\ k' = k + 1
                        /\ UNCHANGED <<pc, values, belongs_to_cache, calls, raisedExc,
                                       lastResolve>>
                    ELSE \E g \in GetOutcomes, l \in ListOutcomes, c \in TargetCreateOutcomes :
                        LET r == ResolveBelongsToFk(field_def, v0, belongs_to_cache,
                                    create_missing_belongs_to, i + 1, g, l, c)
                            w == RelationValue(r, field_def, field_name, excel_col, values)
                        IN  /\ Made(r.calls, "collections_get") \/ g = NoGet
                            /\ Made(r.calls, "list") \/ l = NoList
                            /\ Made(r.calls, "create") \/ c = NoTargetCreate
                            /\ calls' = calls \o r.calls
                            /\ belongs_to_cache' = r.cache
                            /\ lastResolve' = Resolved(i + 1, v0, g, l, c, r)
                            /\ values' = w.values
                            /\ IF w.raised
                               THEN pc' = "raised" /\ raisedExc' = w.exc /\ k' = k
                               ELSE pc' = pc /\ raisedExc' = raisedExc /\ k' = k + 1
    /\ UNCHANGED <<i, optionVars, schemaVars, resultVars, skipped, lastRow>>
    /\ UNCHANGED <<pandas, coerceVars, requestVars, helperVars>>

RowDone == InRow /\ k > Len(mapping)

\* an importer that takes every row for one with values
NoValuesNever(vals) == FALSE

\* line 789: not values
NoValues(vals) == vals = <<>>

\* an importer whose loop passes over the row after the one it handled
NextRowSkipsOne ==
    /\ i' = i + 2
    /\ k' = 1
    /\ values' = <<>>
    /\ pc' = IF i + 2 >= total THEN "done" ELSE "rows"
    /\ lastResolve' = NoResolve

\* the loop goes on with the next row, or ends and lines 818-832 return
NextRow ==
    /\ i' = i + 1
    /\ k' = 1
    /\ values' = <<>>
    /\ pc' = IF i + 1 >= total THEN "done" ELSE "rows"
    /\ lastResolve' = NoResolve

\* lines 789-790
SkipRow ==
    /\ RowDone
    /\ NoValues(values)
    /\ NextRow
    /\ lastRow' = RowEnd(i + 1, "skipped", NoCreate)
    /\ skipped' = skipped + 1
    /\ UNCHANGED <<optionVars, schemaVars, resultVars, belongs_to_cache, calls, raisedExc>>
    /\ UNCHANGED <<pandas, coerceVars, requestVars, helperVars>>

\* lines 792-795
PreviewRow ==
    /\ RowDone
    /\ ~NoValues(values)
    /\ dry_run
    /\ preview' = Append(preview, values)
    /\ success' = success + 1
    /\ NextRow
    /\ lastRow' = RowEnd(i + 1, "preview", NoCreate)
    /\ UNCHANGED <<optionVars, schemaVars, failed, errors, skipped, belongs_to_cache, calls,
                   raisedExc>>
    /\ UNCHANGED <<pandas, coerceVars, requestVars, helperVars>>

\* an importer that does not look at the body's "errors"
CreateSucceededIgnoringErrors(out) == out.ok /\ out.data = "id"

\* the row's create succeeded: lines 800-804 raise nothing
CreateSucceeded(out) == out.ok /\ ~out.errors /\ out.data = "id"

\* the exception that lines 798-804 end with when the create did not succeed
CreateFailure(out) ==
    IF ~out.ok THEN out.exc
    ELSE IF out.errors THEN SimpleErr("app_errors")
    ELSE SimpleErr("bad_create")

\* lines 797-816
WriteRow ==
    /\ RowDone
    /\ ~NoValues(values)
    /\ ~dry_run
    /\ \E out \in CreateOutcomes :
        /\ calls' = Append(calls, CallWith("create", Collection, i + 1, values))
        /\ IF CreateSucceeded(out) THEN
                /\ success' = success + 1
                /\ lastRow' = RowEnd(i + 1, "success", out)
                /\ UNCHANGED <<failed, errors>>
           ELSE /\ failed' = failed + 1
                /\ errors' = Append(errors, ErrorEntry(i + 1, CreateFailure(out), values))
                /\ lastRow' = RowEnd(i + 1, "failed", out)
                /\ UNCHANGED success
    /\ NextRow
    /\ UNCHANGED <<optionVars, schemaVars, preview, skipped, belongs_to_cache, raisedExc>>
    /\ UNCHANGED <<pandas, coerceVars, requestVars, helperVars>>

\* import_excel_to_collection is called again with the same arguments: every
\* local of the call that ended is gone (line 720: the cache is one of them)
RunAgain ==
    /\ pc \in {"done", "raised"}
    /\ pc' = "init"
    /\ fields' = <<>>
    /\ mapping' = <<>>
    /\ reasons' = <<>>
    /\ unmapped' = <<>>
    /\ total' = 0
    /\ i' = 0
    /\ k' = 1
    /\ values' = <<>>
    /\ success' = 0
    /\ failed' = 0
    /\ preview' = <<>>
    /\ errors' = <<>>
    /\ skipped' = 0
    /\ belongs_to_cache' = <<>>
    /\ calls' = <<>>
    /\ lastRow' = RowEnd(0, "none", NoCreate)
    /\ lastResolve' = NoResolve
    /\ raisedExc' = NoErr
    /\ UNCHANGED optionVars
    /\ UNCHANGED <<pandas, coerceVars, requestVars, helperVars>>

\* a result that carries the preview list in write mode too
ImportResultKeepsPreview ==
    [rows |-> nrows, mapping |-> mapping, mapping_reasons |-> reasons,
     unmapped |-> unmapped, total |-> total, success |-> success,
     failed |-> failed, errors |-> errors,
     preview |-> [present |-> TRUE, list |-> preview]]

\* lines 818-832: the dict returned when the loop has ended (preview: the list,
\* or None in write mode)
ImportResult ==
    [rows |-> nrows, mapping |-> mapping, mapping_reasons |-> reasons,
     unmapped |-> unmapped, total |-> total, success |-> success,
     failed |-> failed, errors |-> errors,
     preview |-> IF dry_run THEN [present |-> TRUE, list |-> preview]
                 ELSE [present |-> FALSE, list |-> <<>>]]

ImportNext ==
    \/ StartFails
    \/ StartOk
    \/ MapColumn
    \/ ResolveColumn
    \/ SkipRow
    \/ PreviewRow
    \/ WriteRow
    \/ RunAgain

ImportIdle ==
    /\ pc = "init"
    /\ excel_exists = TRUE
    /\ nrows = 0
    /\ limit = 0
    /\ dry_run = FALSE
    /\ explicit_mapping = <<>>
    /\ resolve_belongs_to = TRUE
    /\ create_missing_belongs_to = FALSE
    /\ fields = <<>>
    /\ mapping = <<>>
    /\ reasons = <<>>
    /\ unmapped = <<>>
    /\ total = 0
    /\ i = 0
    /\ k = 1
    /\ values = <<>>
    /\ success = 0
    /\ failed = 0
    /\ preview = <<>>
    /\ errors = <<>>
    /\ skipped = 0
    /\ belongs_to_cache = <<>>
    /\ calls = <<>>
    /\ lastRow = RowEnd(0, "none", NoCreate)
    /\ lastResolve = NoResolve
    /\ raisedExc = NoErr

----------------------------------------------------------------------------
(* The schema fetcher: NocoBaseClient.collections_get                      *)

\* lines 387-392: the query parameters of the four lookups, in order
GetAttempts ==
    << [key |-> "filterByTk", appends |-> TRUE],
       [key |-> "filterByTk", appends |-> FALSE],
       [key |-> "name", appends |-> TRUE],
       [key |-> "name", appends |-> FALSE] >>

TableNames == {"orders", "users"}

\* resp.get("data"): a dict with its name, with or without a field list, or
\* something that is no dict
Definition(name, hasFields) == [isdict |-> TRUE, name |-> name, fields |-> hasFields]

NoDict == [isdict |-> FALSE, name |-> "", fields |-> FALSE]

\* self.request("GET", "collections:get", params=params): raises, or returns a
\* 2xx body
GetAnswers ==
    {[ok |-> FALSE, exc |-> e, data |-> NoDict] : e \in ClientExcs}
    \cup {[ok |-> TRUE, exc |-> NoErr, data |-> d] :
            d \in {NoDict} \cup {Definition(n, f) : n \in TableNames, f \in BOOLEAN}}

NoAnswer == [ok |-> FALSE, exc |-> NoErr, data |-> NoDict]

\* a fetcher that takes any definition for the one it asked for
NameMatchesAnyDict(data, name) == data.isdict

\* line 398: isinstance(data, dict) and data.get("name") == name
NameMatches(data, name) == data.isdict /\ data.name = name

CollectionsGetStart ==
    /\ gpc = "idle"
    /\ gpc' = "loop"
    /\ gidx' = 1
    /\ get_last_exc' = NoErr
    /\ UNCHANGED <<gName, getLog, getResult>>
    /\ UNCHANGED <<pandas, coerceVars, requestVars, importVars, createVars, mapVars, urlVars,
                   writeVars>>

\* lines 394-402: one lookup
CollectionsGetTry ==
    /\ gpc = "loop"
    /\ gidx <= Len(GetAttempts)
    /\ \E a \in GetAnswers :
        /\ getLog' = Append(getLog, [params |-> GetAttempts[gidx], answer |-> a])
        /\ IF a.ok /\ NameMatches(a.data, gName) THEN
                /\ gpc' = "returned"
                /\ getResult' = a
                /\ UNCHANGED <<gidx, get_last_exc>>
           ELSE /\ get_last_exc' = IF a.ok THEN SimpleErr("name_mismatch") ELSE a.exc
                /\ gidx' = gidx + 1
                /\ UNCHANGED <<gpc, getResult>>
    /\ UNCHANGED gName
    /\ UNCHANGED <<pandas, coerceVars, requestVars, importVars, createVars, mapVars, urlVars,
                   writeVars>>

\* line 403
CollectionsGetRaise ==
    /\ gpc = "loop"
    /\ gidx > Len(GetAttempts)
    /\ gpc' = "raised"
    /\ getResult' =
        [ok |-> FALSE,
         exc |-> IF get_last_exc # NoErr THEN get_last_exc ELSE SimpleErr("runtime"),
         data |-> NoDict]
    /\ UNCHANGED <<gName, gidx, getLog, get_last_exc>>
    /\ UNCHANGED <<pandas, coerceVars, requestVars, importVars, createVars, mapVars, urlVars,
                   writeVars>>

CollectionsGetNext ==
    \/ CollectionsGetStart
    \/ CollectionsGetTry
    \/ CollectionsGetRaise

GetIdle ==
    /\ gpc = "idle"
    /\ gName = "orders"
    /\ gidx = 0
    /\ getLog = <<>>
    /\ get_last_exc = NoErr
    /\ getResult = NoAnswer

----------------------------------------------------------------------------
(* The client's constructor and NocoBaseClient.create                      *)

\* How a caller constructs the client: NocoBaseClient(config=NocoBaseConfig(...))
\* or, as write_test1.py does, NocoBaseClient(base_url=..., token=...,
\* wrap_values=...). wrap_values: "absent", "on" or "off".
CtorArgs ==
    {[style |-> "config", token_blank |-> b, wrap_values |-> "absent"] : b \in BOOLEAN}
    \cup {[style |-> "keywords", token_blank |-> FALSE, wrap_values |-> w] :
            w \in {"on", "off"}}

\* lines 125-129: __init__(self, *, config) takes no other keyword
Construct ==
    /\ client = "none"
    /\ client' = IF ctor.style # "config" THEN "type_error"
                 ELSE IF ctor.token_blank THEN "value_error"
                 ELSE "built"
    /\ UNCHANGED <<ctor, kpc, kValues, kidx, createLog, create_last_exc, createResult>>
    /\ UNCHANGED <<pandas, coerceVars, requestVars, importVars, getVars, mapVars, urlVars,
                   writeVars>>

\* the values a caller may pass to create
CreateValues ==
    { <<>>,
      << <<"name", StrV(<<"u">>)>> >>,
      << <<"ownerId", IntV(5)>> >>,
      << <<"name", StrV(<<"u">>)>>, <<"ownerId", IntV(5)>> >> }

\* the json of a request: the field map itself, or the map under "values"
Payload(wrapped, vals) == [wrapped |-> wrapped, values |-> vals]

\* a client that tries the wrapped payload first
PayloadsWrappedFirst(vals) == <<Payload(TRUE, vals), Payload(FALSE, vals)>>

\* line 269: payloads = [values, {"values": values}]
Payloads(vals) == <<Payload(FALSE, vals), Payload(TRUE, vals)>>

\* self.request("POST", "<collection>:create", json=payload): raises, or returns
\* a 2xx body
CreateAnswers ==
    {[ok |-> FALSE, exc |-> e, body |-> "none"] : e \in ClientExcs \cup {HttpErr(500)}}
    \cup {[ok |-> TRUE, exc |-> NoErr, body |-> b] : b \in {"record", "errors", "empty"}}

NoCreateAnswer == [ok |-> FALSE, exc |-> NoErr, body |-> "none"]

CreateStart ==
    /\ client = "built"
    /\ kpc = "idle"
    /\ kpc' = "loop"
    /\ kidx' = 1
    /\ create_last_exc' = NoErr
    /\ UNCHANGED <<ctor, client, kValues, createLog, createResult>>
    /\ UNCHANGED <<pandas, coerceVars, requestVars, importVars, getVars, mapVars, urlVars,
                   writeVars>>

\* lines 271-275: one payload
CreateTry ==
    /\ kpc = "loop"
    /\ kidx <= Len(Payloads(kValues))
    /\ \E a \in CreateAnswers :
        /\ createLog' = Append(createLog, [payload |-> Payloads(kValues)[kidx], answer |-> a])
        /\ IF a.ok THEN
                /\ kpc' = "returned"
                /\ createResult' = a
                /\ UNCHANGED <<kidx, create_last_exc>>
           ELSE /\ create_last_exc' = a.exc
                /\ kidx' = kidx + 1
                /\ UNCHANGED <<kpc, createResult>>
    /\ UNCHANGED <<ctor, client, kValues>>
    /\ UNCHANGED <<pandas, coerceVars, requestVars, importVars, getVars, mapVars, urlVars,
                   writeVars>>

\* line 276
CreateRaise ==
    /\ kpc = "loop"
    /\ kidx > Len(Payloads(kValues))
    /\ kpc' = "raised"
    /\ createResult' =
        [ok |-> FALSE,
         exc |-> IF create_last_exc # NoErr THEN create_last_exc ELSE SimpleErr("runtime"),
         body |-> "none"]
    /\ UNCHANGED <<ctor, client, kValues, kidx, createLog, create_last_exc>>
    /\ UNCHANGED <<pandas, coerceVars, requestVars, importVars, getVars, mapVars, urlVars,
                   writeVars>>

CreateNext ==
    \/ Construct
    \/ CreateStart
    \/ CreateTry
    \/ CreateRaise

CreateIdle ==
    /\ ctor = [style |-> "config", token_blank |-> FALSE, wrap_values |-> "absent"]
    /\ client = "none"
    /\ kpc = "idle"
    /\ kValues = <<>>
    /\ kidx = 0
    /\ createLog = <<>>
    /\ create_last_exc = NoErr
    /\ createResult = NoCreateAnswer

----------------------------------------------------------------------------
(* The mapping step on its own: lines 706-712 of import_excel_to_collection *)

\* the fields a schema of this part is made of
FA == Field("a", "string", "T", "", "", "", "")

FB == Field("b", "belongsTo", "T", "", "U", "users", "bId")

FT == Field("T", "integer", "U", "", "", "", "")

FC == Field("c", "hasMany", "", "U", "", "cs", "")

FieldPool == {FA, FB, FT, FC}

MaxFields == 3

\* data.fields: up to MaxFields different fields of the pool, in any order
MapSchemas ==
    {fs \in UNION {[1..n -> FieldPool] : n \in 0..MaxFields} :
        \A j, h \in 1..Len(fs) : j # h => fs[j] # fs[h]}

MapColumnLists == { <<"a", "T", "U", "x">>, <<"U", "T">> }

MapExplicits ==
    { <<>>,
      << <<"T", "a">> >>,
      << <<"U", "ghost">> >>,
      << <<"x", "b">>, <<"T", "c">> >>,
      << <<"extra", "a">> >> }

MapExcludes == { {}, {"belongsTo"}, RelationTypes, {"string"} }

\* lines 706-712: the mapper's two dicts, and the columns left without a field
BuildMapping ==
    /\ mpc = "ready"
    /\ LET m == BuildExcelFieldMapping(mColumns, mFields, mExplicit, mExcluded)
       IN  mResult' = [mapping |-> m.mapping, reasons |-> m.reasons,
                       unmapped |-> ColumnsNotIn(mColumns, m.mapping)]
    /\ mpc' = "done"
    /\ UNCHANGED <<mColumns, mFields, mExplicit, mExcluded>>
    /\ UNCHANGED <<pandas, coerceVars, requestVars, importVars, getVars, createVars, urlVars,
                   writeVars>>

NoMapping == [mapping |-> <<>>, reasons |-> <<>>, unmapped |-> <<>>]

MapIdle ==
    /\ mpc = "ready"
    /\ mColumns = <<>>
    /\ mFields = <<>>
    /\ mExplicit = <<>>
    /\ mExcluded = {}
    /\ mResult = NoMapping

----------------------------------------------------------------------------
(* The endpoint candidate resolver: build_fallback_base_urls               *)

\* A base_url string, by its parts: scheme "://" host ":" port path and some
\* trailing slashes. scheme "": the string has no scheme (and then no host and
\* no port: it is path and slashes alone, the empty string among them); port 0:
\* none; host "H": a host written in upper case, "h" the same in lower case.
Url(scheme, host, port, path, slashes) ==
    [scheme |-> scheme, host |-> host, port |-> port, path |-> path, slashes |-> slashes]

MaxSlashes == 2

UrlSchemes == {"", "http", "https", "ftp"}

UrlHosts == {"", "h", "H"}

UrlPorts == {0, 13001}

UrlPaths == {"", "/api"}

\* the strings a Connection Config may carry ("http://" and its like left out:
\* stripping it eats into the scheme's own slashes)
BaseUrlStrings ==
    {u \in [scheme : UrlSchemes, host : UrlHosts, port : UrlPorts, path : UrlPaths,
            slashes : 0..MaxSlashes] :
        /\ u.scheme = "" => (u.host = "" /\ u.port = 0)
        /\ u.scheme # "" => (u.host # "" \/ u.port # 0 \/ u.path # "")}

\* url.rstrip("/")
RStripSlash(u) == [u EXCEPT !.slashes = 0]

\* the empty string
IsEmptyString(u) ==
    u.scheme = "" /\ u.host = "" /\ u.port = 0 /\ u.path = "" /\ u.slashes = 0

\* lines 78-81: add(url)
AddCandidate(cands, u) ==
    LET normalized == RStripSlash(u)
    IN  IF ~IsEmptyString(normalized) /\ \A j \in 1..Len(cands) : cands[j] # normalized
        THEN Append(cands, normalized)
        ELSE cands

\* urlparse(base_url).hostname: the host in lower case
Hostname(u) == IF u.host = "H" THEN "h" ELSE u.host

SwappedScheme(scheme) == IF scheme = "http" THEN "https" ELSE "http"

\* parsed.netloc is not empty
HasNetloc(u) == u.host # "" \/ u.port # 0

\* lines 76-97
BuildFallbackBaseUrls(u) ==
    LET host == Hostname(u)
        c1 == AddCandidate(<<>>, u)
        c2 == IF host # "" THEN AddCandidate(c1, [u EXCEPT !.host = host, !.port = 0])
              ELSE c1
        c3 == AddCandidate(c2, [u EXCEPT !.scheme = SwappedScheme(u.scheme)])
        c4 == IF host # ""
              THEN AddCandidate(c3, [u EXCEPT !.scheme = SwappedScheme(u.scheme),
                                                !.host = host, !.port = 0])
              ELSE c3
    IN  IF u.scheme \in {"http", "https"} /\ HasNetloc(u) THEN c4 ELSE c1

BuildUrls ==
    /\ upc = "ready"
    /\ candidates' = BuildFallbackBaseUrls(uBaseUrl)
    /\ upc' = "done"
    /\ UNCHANGED uBaseUrl
    /\ UNCHANGED <<pandas, coerceVars, requestVars, importVars, getVars, createVars, mapVars,
                   writeVars>>

UrlIdle ==
    /\ upc = "ready"
    /\ uBaseUrl = Url("http", "h", 0, "/api", 0)
    /\ candidates = <<>>

----------------------------------------------------------------------------
(* NocoBaseClient.create and update with the request they make: every HTTP  *)
(* attempt of one call                                                       *)

WriteOps == {"create", "update"}

\* what the network does with one attempt of a write
WriteOutcomes ==
    {o \in Outcomes : \/ ~o.net
                      \/ o.status \in {400, 500} /\ ~o.json
                      \/ o.status = 200}

\* the values written
WriteValues == << <<"name", StrV(<<"u">>)>> >>

\* a client that tries the bare payload once more after the wrapped one
WritePayloadsRetryBare(op) == Payloads(WriteValues) \o <<Payload(FALSE, WriteValues)>>

\* line 269 (create) and line 319 (update): payloads = [values, {"values": values}]
WritePayloads(op) == Payloads(WriteValues)

\* lines 270 and 320, and the first call of request (lines 205-206)
WriteStart ==
    /\ wpc = "idle"
    /\ wpc' = "loop"
    /\ wShape' = 1
    /\ wCand' = 1
    /\ wFirstHttp' = NoExc
    /\ wReqLast' = NoExc
    /\ wLastExc' = NoExc
    /\ UNCHANGED <<wOp, wUrls, wLog, wResult>>
    /\ UNCHANGED <<pandas, coerceVars, requestVars, importVars, getVars, createVars, mapVars,
                   urlVars>>

\* request raised exc: lines 274-275 / 329-330 keep it and go on with the next
\* payload, whose request starts with the first candidate
WriteCatch(exc) ==
    /\ wLastExc' = exc
    /\ wShape' = wShape + 1
    /\ wCand' = 1
    /\ wFirstHttp' = NoExc
    /\ wReqLast' = NoExc
    /\ UNCHANGED <<wpc, wResult>>

\* lines 208-225 inside lines 272-273 / 322-328: one HTTP attempt
WriteAttempt ==
    /\ wpc = "loop"
    /\ wShape <= Len(WritePayloads(wOp))
    /\ wCand <= Len(wUrls)
    /\ \E o \in WriteOutcomes :
        LET r == RequestOnce(wUrls[wCand], o)
        IN  /\ wLog' = Append(wLog, [op |-> wOp, payload |-> WritePayloads(wOp)[wShape],
                                     cand |-> wUrls[wCand], outcome |-> o])
            /\ IF r.ok THEN
                    /\ wpc' = "returned"
                    /\ wResult' = r.body
                    /\ UNCHANGED <<wShape, wCand, wFirstHttp, wReqLast, wLastExc>>
               ELSE IF r.exc.kind = "http" /\ RaisesAtOnce(r.exc.status) THEN
                    WriteCatch(r.exc)
               ELSE /\ wReqLast' = r.exc
                    /\ wFirstHttp' = IF r.exc.kind = "http" /\ wFirstHttp = NoExc
                                      THEN r.exc ELSE wFirstHttp
                    /\ wCand' = wCand + 1
                    /\ UNCHANGED <<wpc, wShape, wLastExc, wResult>>
    /\ UNCHANGED <<wOp, wUrls>>
    /\ UNCHANGED <<pandas, coerceVars, requestVars, importVars, getVars, createVars, mapVars,
                   urlVars>>

\* line 227 inside lines 272-275 / 322-330: no candidate is left for this payload
WriteExhausted ==
    /\ wpc = "loop"
    /\ wShape <= Len(WritePayloads(wOp))
    /\ wCand > Len(wUrls)
    /\ WriteCatch(FinalExc(wFirstHttp, wReqLast))
    /\ UNCHANGED <<wOp, wUrls, wLog>>
    /\ UNCHANGED <<pandas, coerceVars, requestVars, importVars, getVars, createVars, mapVars,
                   urlVars>>

\* lines 276 and 331: raise last_exc or RuntimeError(...)
WriteRaise ==
    /\ wpc = "loop"
    /\ wShape > Len(WritePayloads(wOp))
    /\ wpc' = "raised"
    /\ wResult' = IF wLastExc # NoExc THEN wLastExc ELSE RuntimeErrorExc
    /\ UNCHANGED <<wOp, wUrls, wShape, wCand, wFirstHttp, wReqLast, wLastExc, wLog>>
    /\ UNCHANGED <<pandas, coerceVars, requestVars, importVars, getVars, createVars, mapVars,
                   urlVars>>

WriteNext == WriteStart \/ WriteAttempt \/ WriteExhausted \/ WriteRaise

WriteIdle ==
    /\ wpc = "idle"
    /\ wOp = "create"
    /\ wUrls = BaseUrls(1)
    /\ wShape = 0
    /\ wCand = 0
    /\ wFirstHttp = NoExc
    /\ wReqLast = NoExc
    /\ wLastExc = NoExc
    /\ wLog = <<>>
    /\ wResult = NoExc

----------------------------------------------------------------------------
(* The three parts at rest, for the specifications that do not run them *)

CoerceIdle == cpc = "ready" /\ cValue = None /\ cField = NoField /\ cResult = None

RequestIdle ==
    /\ base_urls = BaseUrls(1)
    /\ rpc = "idle"
    /\ ridx = 0
    /\ last_exc = NoExc
    /\ first_http_exc = NoExc
    /\ attempts = <<>>
    /\ rResult = NoExc

----------------------------------------------------------------------------
(* SpecCoerce *)

CoerceInit ==
    /\ pandas \in BOOLEAN
    /\ cpc = "ready"
    /\ cValue \in CellValues
    /\ cField \in {NoField} \cup {FieldOfType(t) : t \in FieldTypes}
    /\ cResult = None
    /\ RequestIdle
    /\ ImportIdle
    /\ MapIdle
    /\ UrlIdle
    /\ WriteIdle
    /\ GetIdle
    /\ CreateIdle

Coerce ==
    /\ cpc = "ready"
    /\ cResult' = ConvertByFieldType(cValue, cField, pandas)
    /\ cpc' = "done"
    /\ UNCHANGED <<pandas, cValue, cField, requestVars, importVars, helperVars>>

SpecCoerce == CoerceInit /\ [][Coerce]_vars

----------------------------------------------------------------------------
(* SpecRequest: one call of request on a client with 1..MaxCandidates candidates *)

RequestInit ==
    /\ pandas = TRUE
    /\ CoerceIdle
    /\ base_urls \in {BaseUrls(n) : n \in 1..MaxCandidates}
    /\ rpc = "idle"
    /\ ridx = 0
    /\ last_exc = NoExc
    /\ first_http_exc = NoExc
    /\ attempts = <<>>
    /\ rResult = NoExc
    /\ ImportIdle
    /\ MapIdle
    /\ UrlIdle
    /\ WriteIdle
    /\ GetIdle
    /\ CreateIdle

SpecRequest == RequestInit /\ [][RequestNext]_vars

----------------------------------------------------------------------------
(* Spec: one run of import_excel_to_collection *)

Limits == {0, 1}

Init ==
    /\ pandas \in BOOLEAN
    /\ CoerceIdle
    /\ RequestIdle
    /\ pc = "init"
    /\ excel_exists \in BOOLEAN
    /\ nrows \in 0..MaxRows
    /\ limit \in Limits
    /\ dry_run \in BOOLEAN
    /\ explicit_mapping \in ExplicitMappings
    /\ resolve_belongs_to \in BOOLEAN
    /\ create_missing_belongs_to \in BOOLEAN
    /\ fields = <<>>
    /\ mapping = <<>>
    /\ reasons = <<>>
    /\ unmapped = <<>>
    /\ total = 0
    /\ i = 0
    /\ k = 1
    /\ values = <<>>
    /\ success = 0
    /\ failed = 0
    /\ preview = <<>>
    /\ errors = <<>>
    /\ skipped = 0
    /\ belongs_to_cache = <<>>
    /\ calls = <<>>
    /\ lastRow = RowEnd(0, "none", NoCreate)
    /\ lastResolve = NoResolve
    /\ raisedExc = NoErr
    /\ GetIdle
    /\ CreateIdle
    /\ MapIdle
    /\ UrlIdle
    /\ WriteIdle

Next == ImportNext

Spec == Init /\ [][Next]_vars

----------------------------------------------------------------------------
(* SpecCollectionsGet: one call of collections_get *)

CollectionsGetInit ==
    /\ pandas = TRUE
    /\ CoerceIdle
    /\ RequestIdle
    /\ ImportIdle
    /\ MapIdle
    /\ UrlIdle
    /\ WriteIdle
    /\ gpc = "idle"
    /\ gName \in TableNames
    /\ gidx = 0
    /\ getLog = <<>>
    /\ get_last_exc = NoErr
    /\ getResult = NoAnswer
    /\ CreateIdle

SpecCollectionsGet == CollectionsGetInit /\ [][CollectionsGetNext]_vars

----------------------------------------------------------------------------
(* SpecCreate: a client is constructed and create is called once *)

CreateInit ==
    /\ pandas = TRUE
    /\ CoerceIdle
    /\ RequestIdle
    /\ ImportIdle
    /\ MapIdle
    /\ UrlIdle
    /\ WriteIdle
    /\ GetIdle
    /\ ctor \in CtorArgs
    /\ client = "none"
    /\ kpc = "idle"
    /\ kValues \in CreateValues
    /\ kidx = 0
    /\ createLog = <<>>
    /\ create_last_exc = NoErr
    /\ createResult = NoCreateAnswer

SpecCreate == CreateInit /\ [][CreateNext]_vars

----------------------------------------------------------------------------
(* SpecMapping: one mapping step on a bounded schema *)

MappingInit ==
    /\ pandas = TRUE
    /\ CoerceIdle
    /\ RequestIdle
    /\ ImportIdle
    /\ GetIdle
    /\ CreateIdle
    /\ mpc = "ready"
    /\ mColumns \in MapColumnLists
    /\ mFields \in {ExtractFields(fs) : fs \in MapSchemas}
    /\ mExplicit \in MapExplicits
    /\ mExcluded \in MapExcludes
    /\ mResult = NoMapping
    /\ UrlIdle
    /\ WriteIdle

SpecMapping == MappingInit /\ [][BuildMapping]_vars

----------------------------------------------------------------------------
(* SpecUrls: one call of build_fallback_base_urls *)

UrlsInit ==
    /\ pandas = TRUE
    /\ WriteIdle
    /\ CoerceIdle
    /\ RequestIdle
    /\ ImportIdle
    /\ MapIdle
    /\ GetIdle
    /\ CreateIdle
    /\ upc = "ready"
    /\ uBaseUrl \in BaseUrlStrings
    /\ candidates = <<>>

SpecUrls == UrlsInit /\ [][BuildUrls]_vars

----------------------------------------------------------------------------
(* SpecWrite: one call of create or of update, down to its HTTP attempts *)

WriteInit ==
    /\ pandas = TRUE
    /\ CoerceIdle
    /\ RequestIdle
    /\ ImportIdle
    /\ GetIdle
    /\ CreateIdle
    /\ MapIdle
    /\ UrlIdle
    /\ wpc = "idle"
    /\ wOp \in WriteOps
    /\ wUrls \in {BaseUrls(n) : n \in 0..MaxCandidates}
    /\ wShape = 0
    /\ wCand = 0
    /\ wFirstHttp = NoExc
    /\ wReqLast = NoExc
    /\ wLastExc = NoExc
    /\ wLog = <<>>
    /\ wResult = NoExc

SpecWrite == WriteInit /\ [][WriteNext]_vars

----------------------------------------------------------------------------
(* Claims about the type coercer, under SpecCoerce *)

\* what the specification calls a blank cell: absent, missing/NaN, "" or blanks
IsBlankCell(v) == v.kind \in {"none", "nan"} \/ (v.kind = "str" /\ Strip(v.s) = <<>>)

\* C4: coerce returns null for every blank cell value (absent, missing/NaN,
\* empty string, whitespace-only string), whatever the field's declared type.
C4_BlankCoercesToNull == (cpc = "done" /\ IsBlankCell(cValue)) => cResult = None

\* C29: for an integer-family field (integer, bigInt, sort, snowflakeId) coerce
\* returns the integer n for a whole-valued float n.0, the integer value of a
\* digit-only string, for any other value convertible to a number that number
\* truncated to an integer, and the value unchanged when no conversion is
\* possible (blank cells are the subject of C4).
C29_IntegerFamilyCoercion ==
    (cpc = "done" /\ cField.type \in IntegerTypes /\ ~IsBlankCell(cValue)) =>
        /\ CASE cValue.kind = "float" -> cResult = IntV(cValue.n)
              [] cValue.kind \in {"int", "npint"} -> cResult = IntV(cValue.n)
              [] cValue.kind = "str" /\ IsDigitStr(cValue.s) ->
                    cResult = IntV(DigitsToInt(cValue.s))
              [] cValue.kind = "str" /\ ~IsDigitStr(cValue.s) /\ ParseFloat(cValue.s).ok ->
                    cResult = IntV(ParseFloat(cValue.s).n)
              [] OTHER -> cResult = cValue
        /\ cValue = FloatV(7, 0) => cResult = IntV(7)
        /\ cValue = FloatV(7, 5) => cResult = IntV(7)
        /\ cValue = StrV(<<"7">>) => cResult = IntV(7)
        /\ cValue = StrV(<<"7", ".", "5">>) => cResult = IntV(7)
        /\ cValue = StrV(<<"a">>) => cResult = StrV(<<"a">>)

\* the whole-valued float 7.0 in a bigInt field
C29_Witness ==
    /\ cpc = "done"
    /\ cField.type = "bigInt"
    /\ cValue = FloatV(7, 0)
    /\ cResult = IntV(7)

----------------------------------------------------------------------------
(* Claims about request, under SpecRequest *)

AttemptExc(j) == RequestOnce(attempts[j].cand, attempts[j].outcome).exc

\* the candidate answered with a 4xx other than 404 and 405
Rejects(o) == o.net /\ 400 <= o.status /\ o.status < 500 /\ o.status \notin {404, 405}

\* the candidate failed with a status >= 500, a 404, a 405 or at transport level
MaybeWrongEndpoint(o) == ~o.net \/ (o.net /\ (o.status >= 500 \/ o.status \in {404, 405}))

\* the candidate answered 2xx with a JSON body
Answers2xx(o) == o.net /\ 200 <= o.status /\ o.status < 300 /\ o.json

Exhaustion == rpc = "raised" /\ ridx > Len(base_urls)

\* C6: when a candidate answers with a 4xx other than 404 and 405, request
\* raises that candidate's error at once and contacts no later candidate.
C6_RejectionRaisesAtOnce ==
    \A j \in 1..Len(attempts) :
        Rejects(attempts[j].outcome) =>
            /\ j = Len(attempts)
            /\ rpc = "raised"
            /\ rResult = Exc("http", attempts[j].cand, attempts[j].outcome.status)

C6_Witness ==
    /\ Len(base_urls) >= 3
    /\ Len(attempts) = 2
    /\ attempts[1].outcome.status = 502
    /\ attempts[2].outcome.status = 400
    /\ rpc = "raised"

C8_ExhaustionRaisesLastError ==
    Exhaustion =>
        rResult =
            IF \E j \in 1..Len(attempts) : Rejects(attempts[j].outcome)
            THEN AttemptExc(CHOOSE j \in 1..Len(attempts) :
                    /\ Rejects(attempts[j].outcome)
                    /\ \A h \in 1..(j - 1) : ~Rejects(attempts[h].outcome))
            ELSE AttemptExc(Len(attempts))

HttpAttempts == {j \in 1..Len(attempts) : AttemptExc(j).kind = "http"}

\* C8, amended: when all candidates are exhausted without a success, the error
\* raised is the first HTTP error response encountered, whatever its status, if
\* any candidate answered with one, and otherwise the error of the last
\* candidate tried.
C8_ExhaustionRaisesFirstHttpError ==
    Exhaustion =>
        rResult =
            IF HttpAttempts # {}
            THEN AttemptExc(CHOOSE j \in HttpAttempts : \A h \in HttpAttempts : j <= h)
            ELSE AttemptExc(Len(attempts))

C8_Witness ==
    /\ Exhaustion
    /\ Len(attempts) = 3
    /\ ~attempts[1].outcome.net
    /\ attempts[2].outcome.status = 502
    /\ attempts[3].outcome.status = 404
    /\ rResult = Exc("http", base_urls[2], 502)

\* C9: within one call of request the candidates are contacted in list order,
\* each at most once, so the call makes at most as many HTTP attempts as there
\* are candidates.
C9_EachCandidateOnceInOrder ==
    /\ Len(attempts) <= Len(base_urls)
    /\ \A j \in 1..Len(attempts) : attempts[j].cand = base_urls[j]
    /\ \A j, h \in 1..Len(attempts) : j # h => attempts[j].cand # attempts[h].cand

C9_Witness ==
    /\ Len(base_urls) = MaxCandidates
    /\ Len(attempts) = Len(base_urls)
    /\ Exhaustion

\* the candidate answered with a status that the client takes for a success
\* (resp.ok), but with a body that is no JSON
OkUnparsable(o) == o.net /\ RespOk(o.status) /\ ~o.json

\* C36: request returns only a body obtained from a candidate that answered with
\* a success status and a body that parses as JSON; a candidate that answers
\* with a success status and an unparsable body is treated like a transport
\* failure: it is recorded as the last error, not as an HTTP error, and the same
\* request is delivered to the next candidate.
C36_OnlyParsedSuccessReturns ==
    /\ [](rpc = "returned" =>
            /\ attempts # <<>>
            /\ LET a == attempts[Len(attempts)]
               IN  /\ a.outcome.net
                   /\ RespOk(a.outcome.status)
                   /\ a.outcome.json
                   /\ rResult = Body(a.cand, a.outcome.status))
    /\ [](\A j \in 1..Len(attempts) :
            OkUnparsable(attempts[j].outcome) =>
                /\ j = Len(attempts) =>
                        /\ rpc \in {"loop", "raised"}
                        /\ ridx = j + 1
                        /\ last_exc = Exc("json", attempts[j].cand, attempts[j].outcome.status)
                        /\ rpc = "raised" => ridx > Len(base_urls)
                /\ j < Len(attempts) => attempts[j + 1].cand = base_urls[j + 1])
    /\ [][ (Len(attempts') = Len(attempts) + 1
            /\ OkUnparsable(attempts'[Len(attempts')].outcome)) =>
                /\ first_http_exc' = first_http_exc
                /\ rpc' = "loop"
                /\ rResult' = rResult ]_vars

\* the first candidate answered 200 with a body that is no JSON, the request was
\* sent again to the second, whose parsed body is returned
C36_Witness ==
    /\ rpc = "returned"
    /\ Len(attempts) = 2
    /\ attempts[1].outcome = [net |-> TRUE, status |-> 200, json |-> FALSE]
    /\ attempts[2].outcome = [net |-> TRUE, status |-> 200, json |-> TRUE]
    /\ rResult = Body(base_urls[2], 200)

\* the only candidate answered 201 with a body that is no JSON: request raises
\* the parse error
C36_WitnessRaised ==
    /\ rpc = "raised"
    /\ Len(base_urls) = 1
    /\ OkUnparsable(attempts[1].outcome)
    /\ rResult = Exc("json", base_urls[1], 201)

----------------------------------------------------------------------------
(* Claims about the import run, under Spec *)

WriteValuesSeen ==
    {values} \cup {preview[j] : j \in 1..Len(preview)}
             \cup {errors[j].values : j \in 1..Len(errors)}

\* C1: with relation resolution enabled and create-missing disabled, a row whose
\* relation label matches no record of the target table is counted as exactly
\* one failure, with an error entry that carries the row's index and names the
\* label, and the run goes on: the unresolved label never ends the run.
C1_UnresolvedLabelFailsOnlyItsRow ==
    (raisedExc.kind = "resolve_failed" /\ raisedExc.cause = "not_found") =>
        /\ pc # "raised"
        /\ Cardinality({j \in 1..Len(errors) : errors[j].row = i + 1}) = 1
        /\ \E j \in 1..Len(errors) :
            errors[j].row = i + 1 /\ errors[j].error.label = raisedExc.label

\* C2: importRows raises instead of returning an Import Result only before any
\* row has been attempted; once the first row has begun, every error is recorded
\* against its row and the run returns.
C2_RaisesOnlyBeforeFirstRow == pc = "raised" => total = 0

\* C3: in preview mode importRows issues no write request at all, neither on the
\* import table nor on a relation target table.
C3_PreviewIssuesNoWrite ==
    dry_run => \A j \in 1..Len(calls) : calls[j].op # "create"

\* C5, as claimed: every key of every Write Values map is the name of a field of
\* the fetched schema, the keys produced for relation columns included.
C5_KeysAreSchemaFields ==
    \A vs \in WriteValuesSeen : DictKeys(vs) \subseteq DictKeys(fields)

ForeignKeysOfSchema ==
    {fields[j][2].foreignKey : j \in {h \in 1..Len(fields) : fields[h][2].type = "belongsTo"}}

\* C5, amended: every key of every Write Values map is the name of a field of
\* the fetched schema or, for a belongsTo column resolved with relation
\* resolution enabled, the foreign-key name that this field declares.
C5_KeysAreSchemaFieldsOrForeignKeys ==
    \A vs \in WriteValuesSeen :
        DictKeys(vs) \subseteq
            DictKeys(fields) \cup (IF resolve_belongs_to THEN ForeignKeysOfSchema ELSE {})

C5_Witness ==
    /\ RowDone
    /\ DictKeys(values) = {"name", "ownerId"}
    /\ ~DictHas(fields, "ownerId")

\* a 2xx response without application-level errors whose record has an identifier
GoodCreate(out) == out.ok /\ ~out.errors /\ out.data = "id"

LastError == errors[Len(errors)]

\* C10: outside preview mode a row with non-empty Write Values is counted as a
\* success if and only if its create call returned a 2xx response without
\* application-level errors whose created record carries an identifier; in every
\* other case it is counted as exactly one failure, with an error entry holding
\* the row index, the error, the attempted values and, when the error carries an
\* HTTP response, its status, and the run goes on with the next row.
C10_CreateAnswerDecidesTheRow ==
    [][ (RowDone /\ values # <<>> /\ ~dry_run) =>
            /\ lastRow'.row = i + 1
            /\ i' = i + 1
            /\ pc' \in {"rows", "done"}
            /\ IF GoodCreate(lastRow'.resp)
               THEN success' = success + 1 /\ failed' = failed /\ errors' = errors
               ELSE /\ success' = success
                    /\ failed' = failed + 1
                    /\ Len(errors') = Len(errors) + 1
                    /\ SubSeq(errors', 1, Len(errors)) = errors
                    /\ LastError'.row = i + 1
                    /\ LastError'.values = values
                    /\ LastError'.error.kind # "none"
                    /\ ~lastRow'.resp.ok => LastError'.error = lastRow'.resp.exc
                    /\ LastError'.has_response = (lastRow'.resp.exc.kind = "http")
                    /\ LastError'.has_response =>
                            LastError'.status_code = lastRow'.resp.exc.status
      ]_vars

C10_Witness ==
    /\ pc = "rows"
    /\ lastRow.outcome = "failed"
    /\ lastRow.resp.ok /\ lastRow.resp.errors /\ lastRow.resp.data = "id"
    /\ success = 0 /\ failed = 1
    /\ errors[1].row = 1

\* C11: a row whose Write Values map is empty is skipped, in preview mode as in
\* write mode: no request is issued for it and it is counted neither as a
\* success nor as a failure, and the run goes on with the next row.
C11_EmptyRowIsSkipped ==
    [][ (RowDone /\ values = <<>>) =>
            /\ calls' = calls
            /\ success' = success
            /\ failed' = failed
            /\ errors' = errors
            /\ preview' = preview
            /\ i' = i + 1
            /\ pc' \in {"rows", "done"}
      ]_vars

C11_Witness ==
    /\ lastRow.outcome = "skipped"
    /\ lastRow.row = 2
    /\ ~dry_run
    /\ success = 1
    /\ failed = 0
    /\ Len(calls) = 2

\* C12: no Write Values map that is sent in a create request or recorded in the
\* preview holds a null value: a mapped column whose coerced value, or whose
\* resolved foreign key, is null is left out of the map.
C12_NoNullInWriteValues ==
    \A vs \in WriteValuesSeen : \A j \in 1..Len(vs) : vs[j][2] # None

\* a row whose relation label resolved to a record without id, and whose other
\* column gave a value
C12_Witness ==
    /\ RowDone
    /\ \E j \in 1..Len(belongs_to_cache) : belongs_to_cache[j][2] = None
    /\ DictKeys(values) = {"name"}
    /\ Len(mapping) = 2
    /\ i = 0

\* C13: in preview mode the result's success count is the number of rows within
\* the row limit whose Write Values are not empty, failed is 0, the error list
\* is empty and the preview lists exactly those rows' Write Values in source
\* order; outside preview mode the preview is absent.
C13_PreviewResult ==
    /\ [](pc = "done" =>
            /\ i = total
            /\ total = (IF limit <= 0 THEN nrows ELSE Min(nrows, limit))
            /\ ImportResult.preview.present = dry_run
            /\ dry_run =>
                /\ ImportResult.success = Len(ImportResult.preview.list)
                /\ ImportResult.failed = 0
                /\ ImportResult.errors = <<>>)
    /\ [][ (dry_run /\ RowDone) =>
                /\ i' = i + 1
                /\ IF values # <<>>
                   THEN success' = success + 1 /\ preview' = Append(preview, values)
                   ELSE success' = success /\ preview' = preview
         ]_vars

C13_Witness ==
    /\ pc = "done"
    /\ dry_run
    /\ total = 2
    /\ lastRow.outcome = "skipped"
    /\ ImportResult.success = 1
    /\ Len(ImportResult.preview.list) = 1

\* C14: with relation resolution enabled, the raw cell text is never written to
\* a relation-type field (belongsTo, belongsToMany, hasMany, hasOne): no Write
\* Values map has a key that names a relation field of the schema.
C14_NoRawTextInRelationField ==
    resolve_belongs_to =>
        \A vs \in WriteValuesSeen : \A key \in DictKeys(vs) :
            FieldsHas(fields, key) => FieldsGet(fields, key).type \notin RelationTypes

\* the label, the title field and the target table of the resolution of this row
ResolveLabel == Strip(PyStr(lastResolve.value))

ResolveTitleField ==
    IF lastResolve.get.titleField = "" THEN "name" ELSE lastResolve.get.titleField

ResolveTarget == lastResolve.calls[1].table

\* the resolver scanned a page of the target table and no row of it has a title
\* equal to the label
ScannedWithoutMatch ==
    /\ lastResolve.row > 0
    /\ Made(lastResolve.calls, "list")
    /\ lastResolve.list.ok
    /\ \A j \in 1..Len(lastResolve.list.page) :
            \/ lastResolve.list.page[j].tf # ResolveTitleField
            \/ Strip(PyStr(lastResolve.list.page[j].text)) # ResolveLabel

ResolveCreates == {j \in 1..Len(lastResolve.calls) : lastResolve.calls[j].op = "create"}

\* C15: when no row of the scanned target page has a title equal to the label,
\* resolve with create-missing enabled issues one create on the target table
\* with the title field set to the label and returns the identifier of the
\* created row; with creation disabled it issues no create and fails with the
\* not-found error that names the label.
C15_NoMatchCreatesOrFails ==
    ScannedWithoutMatch =>
        IF create_missing_belongs_to
        THEN /\ ResolveCreates = {Len(lastResolve.calls)}
             /\ lastResolve.calls[Len(lastResolve.calls)].table = ResolveTarget
             /\ lastResolve.calls[Len(lastResolve.calls)].payload =
                    << <<ResolveTitleField, StrV(ResolveLabel)>> >>
             /\ lastResolve.create.ok =>
                    ~lastResolve.raised /\ lastResolve.pk = lastResolve.create.id
        ELSE /\ ResolveCreates = {}
             /\ lastResolve.raised
             /\ lastResolve.exc.kind = "not_found"
             /\ lastResolve.exc.label = ResolveLabel

C15_Witness ==
    /\ ScannedWithoutMatch
    /\ create_missing_belongs_to
    /\ lastResolve.list.page # <<>>
    /\ lastResolve.pk = IntV(5)
    /\ DictHas(values, "ownerId")
    /\ DictGet(values, "ownerId") = IntV(5)

\* the triple (target table, title field, label) of the resolution of this row
ResolveKey == <<ResolveTarget, ResolveTitleField, ResolveLabel>>

\* the resolver is called in this step, and learns the target's title field
ResolveStep ==
    /\ pc = "rows"
    /\ lastResolve.row = 0
    /\ lastResolve'.row # 0
    /\ lastResolve'.calls # <<>>
    /\ lastResolve'.get.ok

\* C16: after resolve has succeeded for a triple (target table, title field,
\* label) the triple is cached with its key, and every later resolve of the
\* triple in the same run returns that key and issues neither a list nor a
\* create request to the target table; the cache is empty when a run starts.
C16_CachedResolutionIsReused ==
    /\ [](pc = "init" => belongs_to_cache = <<>>)
    /\ []((lastResolve.row # 0 /\ lastResolve.calls # <<>> /\ ~lastResolve.raised) =>
            /\ DictHas(belongs_to_cache, ResolveKey)
            /\ DictGet(belongs_to_cache, ResolveKey) = lastResolve.pk)
    /\ [][ (ResolveStep /\ DictHas(belongs_to_cache, ResolveKey')) =>
                /\ ~lastResolve'.raised
                /\ lastResolve'.pk = DictGet(belongs_to_cache, ResolveKey')
                /\ \A j \in 1..Len(lastResolve'.calls) :
                        lastResolve'.calls[j].op \notin {"list", "create"}
                /\ calls' = calls \o lastResolve'.calls
                /\ belongs_to_cache' = belongs_to_cache
         ]_vars
    /\ [][ pc' = "init" => belongs_to_cache' = <<>> ]_vars

\* the second row's label was found in the cache that the first row filled
C16_Witness ==
    /\ lastResolve.row = 2
    /\ lastResolve.calls # <<>>
    /\ lastResolve.get.ok
    /\ ~Made(lastResolve.calls, "list")
    /\ lastResolve.pk = IntV(1)
    /\ DictHas(values, "ownerId")
    /\ Len(belongs_to_cache) = 1

\* the rows of the scanned page whose value under the title field, trimmed, is
\* the trimmed label
MatchingRows ==
    {j \in 1..Len(lastResolve.list.page) :
        /\ lastResolve.list.page[j].tf = ResolveTitleField
        /\ Strip(PyStr(lastResolve.list.page[j].text)) = Strip(PyStr(lastResolve.value))}

\* C26: resolve matches a row of the scanned page when the value of the row's
\* title field, trimmed, equals the trimmed label exactly and case-sensitively;
\* the title field is the one the target schema declares, or "name" when it
\* declares none; of several matching rows the first in page order gives the
\* key, and nothing is created.
C26_FirstMatchingRowGivesKey ==
    (/\ lastResolve.row > 0
     /\ Made(lastResolve.calls, "list")
     /\ lastResolve.list.ok
     /\ MatchingRows # {}) =>
        /\ ~lastResolve.raised
        /\ \E j \in MatchingRows :
                /\ \A h \in MatchingRows : j <= h
                /\ lastResolve.pk = lastResolve.list.page[j].id
        /\ ResolveCreates = {}

\* the label " u" is looked up under the default title field in a page whose
\* first row differs by case and whose second and third rows both match
C26_Witness ==
    /\ lastResolve.row > 0
    /\ lastResolve.value = StrV(<<" ", "u">>)
    /\ lastResolve.get.titleField = ""
    /\ Made(lastResolve.calls, "list")
    /\ lastResolve.list.ok
    /\ MatchingRows = {2, 3}
    /\ lastResolve.pk = IntV(1)
    /\ DictHas(values, "ownerId")
    /\ DictGet(values, "ownerId") = IntV(1)

\* the target schema declares the title field "title", and the row found has it
C26_WitnessDeclared ==
    /\ lastResolve.row > 0
    /\ lastResolve.get.titleField = "title"
    /\ MatchingRows = {1}
    /\ lastResolve.list.page[1].id = None
    /\ lastResolve.pk = None

\* the outcomes of a row that has been fully handled
Handled == {"skipped", "preview", "success", "failed"}

\* C30: rows are processed strictly in source order: every request made for a
\* row (relation lookups and its create) is issued only after the row before
\* it has been fully handled (written, skipped or failed), no request is made
\* for a handled row any more, and the error list of the result is ordered by
\* ascending row index.
C30_RowsInSourceOrder ==
    /\ [](/\ \A a, b \in 1..Len(calls) : a < b => calls[a].row <= calls[b].row
          /\ \A a, b \in 1..Len(errors) : a < b => errors[a].row < errors[b].row
          /\ pc = "done" => ImportResult.errors = errors
          /\ pc = "rows" =>
                /\ \A c \in 1..Len(calls) : calls[c].row <= i + 1
                /\ \A e \in 1..Len(errors) : errors[e].row \in 1..i
                /\ i > 0 => lastRow.row = i /\ lastRow.outcome \in Handled)
    /\ [][ (pc = "rows" /\ calls' # calls) =>
                /\ Len(calls') > Len(calls)
                /\ SubSeq(calls', 1, Len(calls)) = calls
                /\ \A c \in (Len(calls) + 1)..Len(calls') : calls'[c].row = i + 1
                /\ i' \in {i, i + 1}
                /\ i' = i + 1 => lastRow'.row = i + 1 /\ lastRow'.outcome \in Handled ]_vars

\* both rows of the sheet failed, the second after a relation lookup of its own
C30_Witness ==
    /\ pc = "done"
    /\ total = 2
    /\ Len(errors) = 2
    /\ errors[1].row = 1 /\ errors[2].row = 2
    /\ \E c \in 1..Len(calls) : calls[c].op = "list" /\ calls[c].row = 2
    /\ \E c \in 1..Len(calls) : calls[c].op = "create" /\ calls[c].row = 1

\* C31: with limit 0 all rows are considered; with limit n > 0 only the first
\* min(n, number of rows) rows are considered, in source order, and no request
\* is issued for a row beyond the limit; the total of the result is the number
\* of rows considered.
C31_RowLimit ==
    /\ [](pc \in {"rows", "done"} =>
            /\ limit = 0 => total = nrows
            /\ limit > 0 => total = (IF limit < nrows THEN limit ELSE nrows)
            /\ i <= total
            /\ \A c \in 1..Len(calls) : calls[c].row <= total
            /\ pc = "done" => i = total /\ ImportResult.total = total)
    /\ [][ (pc = "rows" /\ i' # i) => (i' = i + 1 /\ lastRow'.row = i') ]_vars

\* a sheet of two rows imported with limit 1: the first row is written, the
\* run returns after it, and no call was made for the second
C31_Witness ==
    /\ pc = "done"
    /\ limit = 1
    /\ nrows = 2
    /\ total = 1
    /\ lastRow.row = 1
    /\ lastRow.outcome = "success"
    /\ \E c \in 1..Len(calls) : calls[c].op = "create" /\ calls[c].row = 1

\* the fetches of the imported collection's schema
SchemaFetches ==
    {c \in 1..Len(calls) : calls[c].op = "collections_get" /\ calls[c].table = Collection}

\* C33: the schema of the imported collection is fetched once and the mapping
\* is built once, both before the first row; the field definitions and the
\* mapping do not change while rows are processed, whatever the remote store
\* answers later in the run.
C33_SchemaFetchedOnce ==
    /\ [](pc \in {"rows", "done"} =>
            /\ SchemaFetches = {1}
            /\ calls[1].row = 0
            /\ pc = "done" =>
                    /\ ImportResult.mapping = mapping
                    /\ ImportResult.mapping_reasons = reasons
                    /\ ImportResult.unmapped = unmapped)
    /\ [][ (pc = "init" /\ pc' = "rows") => (i' = 0 /\ Len(calls') = 1) ]_vars
    /\ [][ pc = "rows" =>
                /\ fields' = fields
                /\ mapping' = mapping
                /\ reasons' = reasons
                /\ unmapped' = unmapped ]_vars

\* a relation field of the imported collection points to the collection itself
SelfReference ==
    \E j \in 1..Len(fields) :
        fields[j][2].type = "belongsTo" /\ fields[j][2].target = Collection

\* C33, amended: the field definitions come from one fetch of the imported
\* collection's schema, made before the first row, and the mapping is built
\* once; neither changes while rows are processed. The schema of the imported
\* collection is fetched again only by the resolution of a relation that
\* points to the collection itself, for a row, and changes nothing either.
C33_SchemaAndMappingFixed ==
    /\ [](pc \in {"rows", "done"} =>
            /\ 1 \in SchemaFetches
            /\ calls[1].row = 0
            /\ \A c \in SchemaFetches \ {1} :
                    /\ SelfReference
                    /\ resolve_belongs_to
                    /\ calls[c].row >= 1
            /\ pc = "done" =>
                    /\ ImportResult.mapping = mapping
                    /\ ImportResult.mapping_reasons = reasons
                    /\ ImportResult.unmapped = unmapped)
    /\ [][ (pc = "init" /\ pc' = "rows") => (i' = 0 /\ Len(calls') = 1) ]_vars
    /\ [][ pc = "rows" =>
                /\ fields' = fields
                /\ mapping' = mapping
                /\ reasons' = reasons
                /\ unmapped' = unmapped ]_vars

\* the second row's label was looked up in the target table, whose definition
\* the remote store returned after the mapping was built
C33_Witness ==
    /\ pc = "done"
    /\ total = 2
    /\ Len(mapping) = 2
    /\ \E c \in 1..Len(calls) :
            calls[c].op = "collections_get" /\ calls[c].table = "users" /\ calls[c].row = 2
    /\ success = 2

\* the relation points to the imported collection, whose schema the second row's
\* resolution fetched again
C33_WitnessSelfReference ==
    /\ pc = "done"
    /\ SelfReference
    /\ 1 \in SchemaFetches
    /\ \E c \in SchemaFetches : calls[c].row = 2
    /\ success = 2

\* C34: after any number of processed rows success + failed is at most the
\* number of rows processed so far and at most total, the error list is as long
\* as failed, and success and failed never decrease during the run; when the
\* run returns, success + failed + the number of rows skipped for empty Write
\* Values equals total.
C34_Accounting ==
    /\ [](pc \in {"rows", "done"} =>
            /\ success + failed <= i
            /\ success + failed <= total
            /\ Len(errors) = failed
            /\ pc = "done" =>
                    /\ success + failed + skipped = total
                    /\ ImportResult.success = success
                    /\ ImportResult.failed = failed
                    /\ Len(ImportResult.errors) = failed
                    /\ ImportResult.total = total)
    /\ [][ pc = "rows" => (success' >= success /\ failed' >= failed) ]_vars

\* a run of two rows that returned after one failed row and one skipped row
C34_Witness ==
    /\ pc = "done"
    /\ total = 2
    /\ success = 0
    /\ failed = 1
    /\ skipped = 1
    /\ Len(errors) = 1

\* the resolver was called for this row with a label that is not blank, on a
\* field that names its target and its foreign key
ResolvesLabel(r) ==
    /\ r.row # 0
    /\ Strip(PyStr(r.value)) # <<>>
    /\ ~(r.raised /\ r.exc.kind \in {"no_target", "no_fk"})

\* the cache holds a key for the label on the table of the first call of r
CachedLabel(cache, r) ==
    \E j \in 1..Len(cache) :
        /\ cache[j][1][1] = r.calls[1].table
        /\ cache[j][1][3] = Strip(PyStr(r.value))

\* C39: every resolve call with a non-blank label fetches the schema of the
\* target table, once and before anything else; a cache hit costs that one
\* fetch and no other call, and when the fetch fails the resolution fails with
\* its error, even when the label is already cached.
C39_SchemaFetchedBeforeCache ==
    /\ [](ResolvesLabel(lastResolve) =>
            /\ lastResolve.calls # <<>>
            /\ lastResolve.calls[1].op = "collections_get"
            /\ \A j \in 2..Len(lastResolve.calls) :
                    /\ lastResolve.calls[j].op # "collections_get"
                    /\ lastResolve.calls[j].table = lastResolve.calls[1].table
            /\ ~lastResolve.get.ok =>
                    /\ lastResolve.raised
                    /\ lastResolve.exc = lastResolve.get.exc
                    /\ Len(lastResolve.calls) = 1)
    /\ [][ (lastResolve.row = 0 /\ ResolvesLabel(lastResolve')) =>
                /\ calls' = calls \o lastResolve'.calls
                /\ (lastResolve'.get.ok /\ DictHas(belongs_to_cache, ResolveKey')) =>
                        /\ Len(lastResolve'.calls) = 1
                        /\ ~lastResolve'.raised
                /\ (~lastResolve'.get.ok /\ CachedLabel(belongs_to_cache, lastResolve')) =>
                        /\ lastResolve'.raised
                        /\ pc' = "raised"
                        /\ belongs_to_cache' = belongs_to_cache ]_vars

\* the label of the second row is in the cache since the first row, the fetch
\* of the target's schema fails, and so does the resolution
C39_Witness ==
    /\ lastResolve.row = 2
    /\ ResolvesLabel(lastResolve)
    /\ ~lastResolve.get.ok
    /\ lastResolve.raised
    /\ CachedLabel(belongs_to_cache, lastResolve)
    /\ pc = "raised"

\* the label of the second row is found in the cache, after one schema fetch
C39_WitnessHit ==
    /\ lastResolve.row = 2
    /\ ResolvesLabel(lastResolve)
    /\ lastResolve.get.ok
    /\ Len(lastResolve.calls) = 1
    /\ ~lastResolve.raised
    /\ lastResolve.pk = IntV(5)

\* another mapped column targets the field of the h-th mapped column
SharesField(h) ==
    \E j \in 1..Len(mapping) : j # h /\ mapping[j][2] = mapping[h][2]

\* C38: when two mapped columns target the same field, a row's Write Values
\* holds for that field the coerced value of the last of these columns, in
\* mapping order, whose cell is non-blank: taking the columns in mapping order,
\* a non-blank cell sets the field to its coerced value and a blank cell (absent,
\* NaN, empty or whitespace-only) leaves what an earlier column has set.
C38_LastNonBlankColumnWins ==
    [][ (/\ InRow
         /\ k <= Len(mapping)
         /\ k' = k + 1
         /\ SharesField(k)
         /\ ~IsRelationColumn(FieldsGet(fields, mapping[k][2]))) =>
            \E raw \in CellChoices(mapping[k][1]) :
                IF IsBlankCell(raw)
                THEN values' = values
                ELSE values' = DictPut(values, mapping[k][2],
                                ConvertByFieldType(raw, FieldsGet(fields, mapping[k][2]), pandas))
      ]_vars

\* the creates of this run that the resolver issued (line 754): each follows the
\* scan of the same table for the same row, and sets one field to a label
ResolverCreates ==
    {j \in 2..Len(calls) :
        /\ calls[j].op = "create"
        /\ calls[j - 1].op = "list"
        /\ calls[j - 1].table = calls[j].table
        /\ calls[j - 1].row = calls[j].row
        /\ Len(calls[j].payload) = 1
        /\ calls[j].payload[1][2].kind = "str"}

\* the triple (target table, title field, label) of a create of the resolver
TripleOf(c) == <<c.table, c.payload[1][1], c.payload[1][2].s>>

CreatedTriples == {TripleOf(calls[j]) : j \in ResolverCreates}

\* the creates that the resolver issued so far in this run for a triple
TargetCreates(triple) == {j \in ResolverCreates : TripleOf(calls[j]) = triple}

\* C37: with create-missing enabled, one import run issues at most one create
\* on a target table for each distinct triple (target table, title field,
\* label), however many rows carry the label.
C37_OneCreatePerTriple ==
    create_missing_belongs_to =>
        \A triple \in CreatedTriples : Cardinality(TargetCreates(triple)) = 1

\* both rows carry the label, the first row's create answered without id, and
\* the second row was served from the cache: one create in all
C37_Witness ==
    /\ create_missing_belongs_to
    /\ lastResolve.row = 2
    /\ ~lastResolve.raised
    /\ lastResolve.calls # <<>>
    /\ ~Made(lastResolve.calls, "list")
    /\ Cardinality(CreatedTriples) = 1
    /\ \A triple \in CreatedTriples : triple = ResolveKey
    /\ lastResolve.pk = None

\* the target declared another title field for the second row: its triple is
\* another one, and it is created too
C37_WitnessTwoTriples ==
    /\ create_missing_belongs_to
    /\ Cardinality(CreatedTriples) = 2

\* the resolution of this row gave a null key
NullKey(r) == r.row # 0 /\ ~r.raised /\ r.pk = None

\* C35: when relation resolution yields a null key (blank label, matched target
\* row without id, created target row whose response has no id) the foreign-key
\* field is left out of the row's Write Values and the row is not counted as
\* failed for it; for a non-blank label the null key is cached, so that later
\* rows with the same label leave the field out as well.
C35_NullKeyOmitsField ==
    /\ []((pc = "rows" /\ NullKey(lastResolve)) =>
            /\ \A fk \in ForeignKeysOfSchema : ~DictHas(values, fk)
            /\ \A e \in 1..Len(errors) : errors[e].row # lastResolve.row
            /\ ResolveLabel # <<>> =>
                    /\ DictHas(belongs_to_cache, ResolveKey)
                    /\ DictGet(belongs_to_cache, ResolveKey) = None)
    /\ [][ (pc = "rows" /\ lastResolve.row = 0 /\ NullKey(lastResolve')) =>
                /\ pc' = "rows"
                /\ values' = values
                /\ failed' = failed
                /\ errors' = errors ]_vars
    /\ [][ (/\ ResolveStep
            /\ DictHas(belongs_to_cache, ResolveKey')
            /\ DictGet(belongs_to_cache, ResolveKey') = None) =>
                /\ NullKey(lastResolve')
                /\ values' = values
                /\ pc' = "rows" ]_vars

\* the label of the second row is found in the cache with the null key that the
\* first row's matched record without id left there
C35_Witness ==
    /\ pc = "rows"
    /\ lastResolve.row = 2
    /\ NullKey(lastResolve)
    /\ lastResolve.calls # <<>>
    /\ ~Made(lastResolve.calls, "list")
    /\ ~create_missing_belongs_to
    /\ belongs_to_cache = << <<ResolveKey, None>> >>
    /\ RowDone
    /\ DictKeys(values) = {"name"}

\* the record created for the label came back without id
C35_WitnessCreated ==
    /\ pc = "rows"
    /\ NullKey(lastResolve)
    /\ Made(lastResolve.calls, "create")
    /\ ~DictHas(values, "ownerId")

\* the label is blank: nothing is looked up and nothing is cached
C35_WitnessBlank ==
    /\ pc = "rows"
    /\ NullKey(lastResolve)
    /\ lastResolve.calls = <<>>
    /\ belongs_to_cache = <<>>

----------------------------------------------------------------------------
(* Claims about collections_get, under SpecCollectionsGet *)

\* the j-th lookup was answered 2xx with the definition of the table asked for
LookupMatches(j) ==
    /\ getLog[j].answer.ok
    /\ getLog[j].answer.data.isdict
    /\ getLog[j].answer.data.name = gName

\* C17: getSchema returns a definition only if its name equals the name asked
\* for: a 2xx answer whose definition has another name is never returned but
\* followed by the next lookup (the filterByTk lookups before the name lookups),
\* and when no lookup yields a matching definition the call fails with an error.
C17_OnlyMatchingDefinitionReturned ==
    /\ gpc = "returned" =>
            /\ getLog # <<>>
            /\ getResult = getLog[Len(getLog)].answer
            /\ getResult.data.isdict
            /\ getResult.data.name = gName
    /\ \A j \in 1..Len(getLog) : LookupMatches(j) => (j = Len(getLog) /\ gpc = "returned")
    /\ \A j, h \in 1..Len(getLog) :
            j < h => ~(getLog[j].params.key = "name" /\ getLog[h].params.key = "filterByTk")
    /\ Len(getLog) >= 1 => getLog[1].params.key = "filterByTk"
    /\ gpc = "loop" => Len(getLog) = gidx - 1
    /\ gpc = "raised" =>
            /\ \E j \in 1..Len(getLog) : getLog[j].params.key = "name"
            /\ getResult.exc # NoErr
            /\ ~getResult.ok

\* a definition of another table came first, and a name lookup gave the right one
C17_Witness ==
    /\ gpc = "returned"
    /\ Len(getLog) = 3
    /\ getLog[1].answer.ok
    /\ getLog[1].answer.data.isdict
    /\ getLog[1].answer.data.name # gName
    /\ getLog[3].params.key = "name"

\* C18: every lookup that getSchema issues asks for the definition with its
\* field list included, so that a definition it returns always comes from a
\* request that asked for the fields.
C18_EveryLookupAsksForFields ==
    /\ \A j \in 1..Len(getLog) : getLog[j].params.appends
    /\ gpc = "returned" => getLog[Len(getLog)].params.appends

----------------------------------------------------------------------------
(* Claims about the constructor and create, under SpecCreate *)

\* C19: create tries the bare field map first and the same map under a values
\* key second; the second is tried only if the first attempt raised, the
\* response of the first successful attempt is returned, and when both fail the
\* error raised is the one of the second attempt.
C19_BareThenWrapped ==
    /\ Len(createLog) <= 2
    /\ Len(createLog) >= 1 => createLog[1].payload = [wrapped |-> FALSE, values |-> kValues]
    /\ Len(createLog) = 2 =>
            /\ ~createLog[1].answer.ok
            /\ createLog[2].payload = [wrapped |-> TRUE, values |-> kValues]
    /\ kpc = "loop" /\ createLog # <<>> => ~createLog[Len(createLog)].answer.ok
    /\ kpc = "returned" =>
            /\ createLog # <<>>
            /\ createLog[Len(createLog)].answer.ok
            /\ createResult = createLog[Len(createLog)].answer
    /\ kpc = "raised" =>
            /\ Len(createLog) = 2
            /\ ~createLog[2].answer.ok
            /\ ~createResult.ok
            /\ createResult.exc = createLog[2].answer.exc

\* the bare map was refused and the wrapped one accepted
C19_Witness ==
    /\ kpc = "returned"
    /\ Len(createLog) = 2
    /\ createLog[1].answer.exc = HttpErr(400)
    /\ createLog[2].payload.wrapped
    /\ kValues # <<>>
    /\ createResult.body = "record"

\* C20: the order of the two payload shapes is configurable: a client
\* constructed with the wrap-values preference enabled tries the wrapped shape
\* first, a client without it the bare shape.
C20_WrapValuesSetsTheOrder ==
    /\ (client # "none" /\ ctor.wrap_values = "on") => client = "built"
    /\ createLog # <<>> => createLog[1].payload.wrapped = (ctor.wrap_values = "on")

----------------------------------------------------------------------------
(* Claims about the mapping step, under SpecMapping *)

MColumns == {mColumns[j] : j \in 1..Len(mColumns)}

\* the operator's override for the column names a field of the schema
AcceptedOverride(col) ==
    \E j \in 1..Len(mExplicit) : mExplicit[j][1] = col /\ DictHas(mFields, mExplicit[j][2])

\* the field's type is not excluded
NotExcluded(field_name) == DictGet(mFields, field_name).type \notin mExcluded

MappedTo(col, field_name, reason) ==
    /\ DictHas(mResult.mapping, col)
    /\ DictGet(mResult.mapping, col) = field_name
    /\ DictHas(mResult.reasons, col)
    /\ DictGet(mResult.reasons, col) = reason

\* C21: every column whose name is the identifier of a field whose type is not
\* excluded is mapped to that field with reason matched-by-identifier, also
\* when its name is the title of another field; only an accepted explicit
\* override for the column goes before the identifier match.
C21_IdentifierBeforeTitle ==
    mpc = "done" =>
        \A col \in MColumns :
            (DictHas(mFields, col) /\ NotExcluded(col) /\ ~AcceptedOverride(col)) =>
                MappedTo(col, col, "match_field_name")

\* the column T is the identifier of one field and the title of an earlier one
C21_Witness ==
    /\ mpc = "done"
    /\ mExplicit = <<>>
    /\ mExcluded = {}
    /\ Len(mFields) >= 2
    /\ mFields[1][2] = FA
    /\ DictHas(mFields, "T")
    /\ MappedTo("T", "T", "match_field_name")

\* the explicit mapping without the override for the column
WithoutOverride(col) == SelectSeq(mExplicit, LAMBDA e : e[1] # col)

\* what the mapper decides for the column when the operator gives no override for it
AsIfNoOverride(col) ==
    BuildExcelFieldMapping(mColumns, mFields, WithoutOverride(col), mExcluded)

\* C22: an explicit override column -> field is in the mapping, with reason
\* explicit, if and only if the field exists in the schema; an override that
\* names an unknown field yields no mapping to that field, and its column is
\* resolved by identifier or title like a column without override.
C22_OverrideNeedsKnownField ==
    mpc = "done" =>
        \A j \in 1..Len(mExplicit) :
            LET col == mExplicit[j][1]
                field_name == mExplicit[j][2]
            IN  /\ MappedTo(col, field_name, "explicit") <=> DictHas(mFields, field_name)
                /\ ~DictHas(mFields, field_name) =>
                    /\ \A h \in 1..Len(mResult.mapping) : mResult.mapping[h][2] # field_name
                    /\ DictHas(mResult.mapping, col) = DictHas(AsIfNoOverride(col).mapping, col)
                    /\ DictHas(mResult.mapping, col) =>
                        /\ DictGet(mResult.mapping, col) =
                                DictGet(AsIfNoOverride(col).mapping, col)
                        /\ DictGet(mResult.reasons, col) =
                                DictGet(AsIfNoOverride(col).reasons, col)
                        /\ DictGet(mResult.reasons, col) # "explicit"

\* the override of column U names no field, and U is matched by a title
C22_Witness ==
    /\ mpc = "done"
    /\ mExplicit = << <<"U", "ghost">> >>
    /\ "U" \in MColumns
    /\ DictHas(mResult.mapping, "U")
    /\ DictGet(mResult.reasons, "U") = "match_field_title"

\* the stripped, non-empty titles of a field
TitlesOf(field_def) ==
    {StripName(field_def.title), StripName(field_def.label), StripName(field_def.uiTitle)}
        \ {""}

\* the positions in schema order of the fields that carry the title
FieldsTitled(t) == {j \in 1..Len(mFields) : t \in TitlesOf(mFields[j][2])}

AllowedFieldsTitled(t) == {j \in FieldsTitled(t) : NotExcluded(mFields[j][1])}

First(S) == CHOOSE j \in S : \A h \in S : j <= h

\* the column is left to title matching
LeftToTitles(col) ==
    /\ col \in MColumns
    /\ ~AcceptedOverride(col)
    /\ ~(DictHas(mFields, col) /\ NotExcluded(col))

\* C23, as claimed: for every set of excluded types, a column named by a title
\* that several fields share is mapped to the first of those fields in schema
\* order, and no later field with that title is the result of a title match.
C23_FirstTitledFieldWins ==
    mpc = "done" =>
        \A col \in MColumns :
            (LeftToTitles(col) /\ Cardinality(FieldsTitled(col)) >= 2) =>
                MappedTo(col, mFields[First(FieldsTitled(col))][1], "match_field_title")

\* C23, amended: the column is mapped to the first, in schema order, of the
\* fields with that title whose type is not excluded, and to no field by title
\* when every field with that title is excluded.
C23_FirstAllowedTitledFieldWins ==
    mpc = "done" =>
        \A col \in MColumns :
            LeftToTitles(col) =>
                IF AllowedFieldsTitled(col) # {}
                THEN MappedTo(col, mFields[First(AllowedFieldsTitled(col))][1],
                              "match_field_title")
                ELSE ~DictHas(mResult.mapping, col)

\* two fields are titled T, the first of an excluded type: the second is taken
C23_Witness ==
    /\ mpc = "done"
    /\ Len(mFields) = 2
    /\ mFields[1][2] = FB
    /\ mFields[2][2] = FA
    /\ mExcluded = {"belongsTo"}
    /\ mExplicit = <<>>
    /\ MappedTo("T", "a", "match_field_title")

\* the mapping step alone: a mapping to a field of an excluded type is an override
ExcludedTypesOnlyByOverride ==
    mpc = "done" =>
        \A j \in 1..Len(mResult.mapping) :
            LET col == mResult.mapping[j][1]
                field_name == mResult.mapping[j][2]
            IN  ~NotExcluded(field_name) =>
                    /\ DictGet(mResult.reasons, col) = "explicit"
                    /\ <<col, field_name>> \in {mExplicit[h] : h \in 1..Len(mExplicit)}

\* the import with relation resolution disabled: no relation field is mapped
\* by identifier or title, and every request goes to the imported collection
NoRelationWithoutResolution ==
    (pc \in {"rows", "done"} /\ ~resolve_belongs_to) =>
        /\ \A j \in 1..Len(mapping) :
                FieldsGet(fields, mapping[j][2]).type \in RelationTypes =>
                    /\ DictGet(reasons, mapping[j][1]) = "explicit"
                    /\ <<mapping[j][1], mapping[j][2]>> \in
                            {explicit_mapping[h] : h \in 1..Len(explicit_mapping)}
        /\ \A c \in 1..Len(calls) : calls[c].table = Collection

\* C24: the mapper never maps a column by identifier or by title to a field
\* whose type is excluded, only an explicit override does; the import with
\* relation resolution disabled excludes belongsTo, belongsToMany, hasMany and
\* hasOne and sends no request to a relation target table.
C24_ExcludedTypesNeverAutoMapped ==
    /\ ExcludedTypesOnlyByOverride
    /\ NoRelationWithoutResolution

\* resolution is disabled, the schema has the relation field owner whose title
\* is the column Owner, the column stays unmapped and a row has been written
C24_Witness ==
    /\ pc = "done"
    /\ ~resolve_belongs_to
    /\ FieldsHas(fields, "owner")
    /\ FieldsGet(fields, "owner").type = "belongsTo"
    /\ ~DictHas(mapping, "Owner")
    /\ success >= 1
    /\ \E c \in 1..Len(calls) : calls[c].op = "create"

Unmapped == {mResult.unmapped[j] : j \in 1..Len(mResult.unmapped)}

\* C25: the keys of the mapping and the unmapped list partition the columns of
\* the spreadsheet: every mapping key is a column, each column maps to at most
\* one field, every column without a field is in the unmapped list, and the
\* reasons have exactly the keys of the mapping.
C25_MappingAndUnmappedPartitionColumns ==
    mpc = "done" =>
        /\ DictKeys(mResult.mapping) \subseteq MColumns
        /\ DictKeys(mResult.mapping) \cap Unmapped = {}
        /\ DictKeys(mResult.mapping) \cup Unmapped = MColumns
        /\ \A j, h \in 1..Len(mResult.mapping) :
                j # h => mResult.mapping[j][1] # mResult.mapping[h][1]
        /\ DictKeys(mResult.reasons) = DictKeys(mResult.mapping)

----------------------------------------------------------------------------
(* Claims about create and update, under SpecWrite *)

\* the attempt got a success status and a body that parses
Succeeded(a) == a.outcome.net /\ a.outcome.status < 400 /\ a.outcome.json

\* C32: in one create or update every pair (payload shape, endpoint candidate)
\* is attempted at most once; the pairs are tried shape-major, the bare shape
\* with the candidates in list order and then the wrapped shape with the
\* candidates in list order; the operation stops at the first success; there
\* are at most twice as many HTTP attempts as endpoint candidates.
C32_EachPairOnceShapeMajor ==
    /\ \A a, b \in 1..Len(wLog) :
            a < b =>
                /\ <<wLog[a].payload, wLog[a].cand>> # <<wLog[b].payload, wLog[b].cand>>
                /\ wLog[a].payload.wrapped => wLog[b].payload.wrapped
                /\ wLog[a].payload.wrapped = wLog[b].payload.wrapped =>
                        wLog[a].cand < wLog[b].cand
                /\ ~Succeeded(wLog[a])
    /\ \A a \in 1..Len(wLog) :
            /\ wLog[a].op = wOp
            /\ wLog[a].payload.values = WriteValues
            /\ \A c \in 1..(wLog[a].cand - 1) :
                    \E b \in 1..(a - 1) :
                        wLog[b].payload = wLog[a].payload /\ wLog[b].cand = c
    /\ Len(wLog) <= 2 * Len(wUrls)
    /\ (wLog # <<>> /\ Succeeded(wLog[Len(wLog)])) => wpc = "returned"
    /\ wpc = "returned" =>
            /\ wLog # <<>>
            /\ Succeeded(wLog[Len(wLog)])
            /\ wResult = Body(wLog[Len(wLog)].cand, wLog[Len(wLog)].outcome.status)

\* an update over two candidates: the bare shape is refused by the first with a
\* 400, the wrapped shape fails with a 500 there and succeeds on the second
C32_Witness ==
    /\ wpc = "returned"
    /\ wOp = "update"
    /\ Len(wUrls) = 2
    /\ Len(wLog) = 3
    /\ ~wLog[1].payload.wrapped /\ wLog[1].cand = 1 /\ wLog[1].outcome.status = 400
    /\ wLog[2].payload.wrapped /\ wLog[2].cand = 1 /\ wLog[2].outcome.status = 500
    /\ wLog[3].payload.wrapped /\ wLog[3].cand = 2

\* a create over four candidates that made all its eight attempts and raised
C32_WitnessAllFailed ==
    /\ wpc = "raised"
    /\ wOp = "create"
    /\ Len(wUrls) = 4
    /\ Len(wLog) = 8

----------------------------------------------------------------------------
(* Claims about build_fallback_base_urls, under SpecUrls *)

\* the list without the later occurrences of its elements
FirstOccurrences(urls) ==
    SelectSeq([j \in 1..Len(urls) |->
                  IF \E h \in 1..(j - 1) : urls[h] = urls[j] THEN Url("", "", 0, "", 0)
                  ELSE urls[j]],
              LAMBDA u : ~IsEmptyString(u))

\* the four candidates of the declared order for an original without trailing
\* slash; portlessHost is the host as the portless candidates write it
DeclaredCandidates(o, portlessHost) ==
    FirstOccurrences(<<o,
                       [o EXCEPT !.host = portlessHost, !.port = 0],
                       [o EXCEPT !.scheme = SwappedScheme(o.scheme)],
                       [o EXCEPT !.scheme = SwappedScheme(o.scheme),
                                 !.host = portlessHost, !.port = 0]>>)

\* C27: for every http or https URL with a host the candidates are, in this
\* order, without duplicates and without trailing slash: the original URL, the
\* same scheme and host without the port, the opposite scheme with the same
\* host and port, the opposite scheme with the host without the port; for a
\* URL of another scheme the original URL alone.
C27_CandidatesInDeclaredOrder ==
    upc = "done" =>
        LET o == RStripSlash(uBaseUrl)
        IN  /\ (uBaseUrl.scheme \in {"http", "https"} /\ uBaseUrl.host # "") =>
                    candidates = DeclaredCandidates(o, o.host)
            /\ uBaseUrl.scheme = "ftp" => candidates = <<o>>

\* the same, with the host of the portless candidates in lower case
C27_CandidatesWithLowerCaseHost ==
    upc = "done" =>
        LET o == RStripSlash(uBaseUrl)
        IN  /\ (uBaseUrl.scheme \in {"http", "https"} /\ uBaseUrl.host # "") =>
                    candidates = DeclaredCandidates(o, IF o.host = "H" THEN "h" ELSE o.host)
            /\ uBaseUrl.scheme = "ftp" => candidates = <<o>>

\* C28: the candidate list of a client is never empty, whatever base URL its
\* configuration carries: it holds at least the original URL.
C28_CandidatesNeverEmpty ==
    upc = "done" => Len(candidates) >= 1 /\ candidates[1] = RStripSlash(uBaseUrl)

====
